---- MODULE Spec2Model ----
(***************************************************************************)
(* A model of the storage core of redis-3.0-annotated: the set and hash    *)
(* type layer (t_set.c, t_hash.c), the database namespace, and the RDB      *)
(* snapshot writer, loader and fork-based background save (rdb.c).          *)
(*                                                                         *)
(* Strings of the program are TLA+ strings, sdslen is Len.  A value object  *)
(* (robj) is a record with the fields type and encoding and one field per   *)
(* representation its ptr can point to (intset, ziplist, dict); the fields  *)
(* of the representations not in use are empty.                             *)
(***************************************************************************)
EXTENDS Integers, Sequences, FiniteSets, TLC

VARIABLES
    db,      \* server.db[j]: [dict |-> key -> robj, expires |-> key -> ms deadline]
    server,  \* the fields of struct redisServer the save protocol reads and writes
    now,     \* the wall clock (mstime(), time(NULL))
    fs,      \* the working directory: the target file and temp-<pid>.rdb per pid
    saver,   \* per process, the position of its rdbSave() call and its locals
    childdb, \* the background-save child's copy-on-write view of server.db
    reply,   \* the reply to the last client command (for a multi-bulk reply, its head)
    log,     \* the last line the server process wrote to its log (redisLog)
    mbulk,   \* the bulk strings that follow the head of the last reply, in order
    codec    \* a memory rio with the argument and the result of the rdb.c
             \* writer and reader run over it

vars == <<db, server, now, fs, saver, childdb, reply, log, mbulk, codec>>

-----------------------------------------------------------------------------
(* Bounds of the model *)

\* the clock runs from 0 to MaxTime
MaxTime == 2
\* write commands are accepted while server.dirty < MaxDirty
MaxDirty == 2
\* string2ll is tabulated for the integers -MaxLL..MaxLL
MaxLL == 12

\* server.dbnum databases, numbered 0..dbnum-1
DbIds == {0, 1}
\* the databases clients have selected
ClientDbs == {1}
\* the key names clients use
Keys == {"a"}
\* the members clients add to and remove from sets
Members == {"1"}
\* the absolute deadlines clients give to PEXPIREAT
ExpireTimes == {1}

(* Configuration (redis.conf) *)
server_set_max_intset_entries == 2
server_hash_max_ziplist_entries == 2
server_hash_max_ziplist_value == 64

(* Constants of the program *)
REDIS_OK == "REDIS_OK"
REDIS_ERR == "REDIS_ERR"
REDIS_SET == "set"
REDIS_HASH == "hash"
REDIS_ENCODING_INTSET == "intset"
REDIS_ENCODING_HT == "ht"
REDIS_ENCODING_ZIPLIST == "ziplist"
NULL == "NULL"
SIGUSR1 == "SIGUSR1"
SIGKILL == "SIGKILL"
Signals == {SIGUSR1, SIGKILL}

-----------------------------------------------------------------------------
(* util.c conversions, as used by isObjectRepresentableAsLongLong and       *)
(* createStringObjectFromLongLong                                           *)

Digit(d) ==
    CASE d = 0 -> "0" [] d = 1 -> "1" [] d = 2 -> "2" [] d = 3 -> "3"
      [] d = 4 -> "4" [] d = 5 -> "5" [] d = 6 -> "6" [] d = 7 -> "7"
      [] d = 8 -> "8" [] d = 9 -> "9"

RECURSIVE ll2string(_)
ll2string(n) ==
    IF n < 0 THEN "-" \o ll2string(-n)
    ELSE IF n < 10 THEN Digit(n)
    ELSE ll2string(n \div 10) \o Digit(n % 10)

LLRange == (-MaxLL)..MaxLL
LLStrings == [n \in LLRange |-> ll2string(n)]

\* REDIS_OK exactly when s is the decimal text of an integer
isObjectRepresentableAsLongLong(s) == \E n \in LLRange : LLStrings[n] = s
string2ll(s) == CHOOSE n \in LLRange : LLStrings[n] = s

sdslen(s) == Len(s)

-----------------------------------------------------------------------------
(* Function helpers for dictionaries (dict.c): a dict is a function whose    *)
(* domain is the set of its keys                                            *)

emptyDict == <<>>
dictSize(d) == Cardinality(DOMAIN d)
dictFind(d, k) == k \in DOMAIN d
dictAdd(d, k, v) == (k :> v) @@ d
dictReplace(d, k, v) == (k :> v) @@ d
dictDelete(d, k) == [x \in (DOMAIN d) \ {k} |-> d[x]]

\* the elements of a finite set of strings in the order the dict iterator
\* yields them
RECURSIVE dictIterate(_)
dictIterate(S) ==
    IF S = {} THEN <<>>
    ELSE LET x == CHOOSE x \in S : TRUE IN <<x>> \o dictIterate(S \ {x})

-----------------------------------------------------------------------------
(* Value objects (object.c constructors as used by t_set.c and t_hash.c)    *)

createIntsetObject ==
    [type |-> REDIS_SET, encoding |-> REDIS_ENCODING_INTSET,
     intset |-> {}, ziplist |-> <<>>, dict |-> emptyDict]
createSetObject ==
    [type |-> REDIS_SET, encoding |-> REDIS_ENCODING_HT,
     intset |-> {}, ziplist |-> <<>>, dict |-> emptyDict]
createHashObject ==
    [type |-> REDIS_HASH, encoding |-> REDIS_ENCODING_ZIPLIST,
     intset |-> {}, ziplist |-> <<>>, dict |-> emptyDict]

-----------------------------------------------------------------------------
(* t_set.c *)

setTypeCreate(value) ==
    IF isObjectRepresentableAsLongLong(value) THEN createIntsetObject
    ELSE createSetObject

\* a conversion whose loop leaves the first integer of the intset behind
setTypeConvert_skipsFirst(setobj, enc) ==
    [setobj EXCEPT !.encoding = REDIS_ENCODING_HT,
                   !.intset = {},
                   !.dict = [s \in {ll2string(i) :
                                      i \in {i \in setobj.intset :
                                               \E k \in setobj.intset : k < i}} |-> NULL]]

\* the intset becomes a dict holding the decimal text of every integer
setTypeConvert(setobj, enc) ==
    [setobj EXCEPT !.encoding = REDIS_ENCODING_HT,
                   !.intset = {},
                   !.dict = [s \in {ll2string(i) : i \in setobj.intset} |-> NULL]]

setTypeSize(subject) ==
    IF subject.encoding = REDIS_ENCODING_HT THEN dictSize(subject.dict)
    ELSE Cardinality(subject.intset)

\* a setTypeAdd that converts the intset once it holds as many members as
\* set-max-intset-entries
setTypeAdd_convertsEarly(subject, value) ==
    IF subject.encoding = REDIS_ENCODING_HT THEN
        IF dictFind(subject.dict, value) THEN [o |-> subject, r |-> 0]
        ELSE [o |-> [subject EXCEPT !.dict = dictAdd(@, value, NULL)], r |-> 1]
    ELSE IF isObjectRepresentableAsLongLong(value) THEN
        LET llval == string2ll(value) IN
        IF llval \in subject.intset THEN [o |-> subject, r |-> 0]
        ELSE LET added == [subject EXCEPT !.intset = @ \cup {llval}] IN
             IF Cardinality(added.intset) >= server_set_max_intset_entries
             THEN [o |-> setTypeConvert(added, REDIS_ENCODING_HT), r |-> 1]
             ELSE [o |-> added, r |-> 1]
    ELSE LET conv == setTypeConvert(subject, REDIS_ENCODING_HT) IN
         [o |-> [conv EXCEPT !.dict = dictAdd(@, value, NULL)], r |-> 1]

\* [o |-> the set afterwards, r |-> 1 if value was added, 0 if already there]
setTypeAdd(subject, value) ==
    IF subject.encoding = REDIS_ENCODING_HT THEN
        IF dictFind(subject.dict, value) THEN [o |-> subject, r |-> 0]
        ELSE [o |-> [subject EXCEPT !.dict = dictAdd(@, value, NULL)], r |-> 1]
    ELSE IF isObjectRepresentableAsLongLong(value) THEN
        LET llval == string2ll(value) IN
        IF llval \in subject.intset THEN [o |-> subject, r |-> 0]
        ELSE LET added == [subject EXCEPT !.intset = @ \cup {llval}] IN
             IF Cardinality(added.intset) > server_set_max_intset_entries
             THEN [o |-> setTypeConvert(added, REDIS_ENCODING_HT), r |-> 1]
             ELSE [o |-> added, r |-> 1]
    ELSE LET conv == setTypeConvert(subject, REDIS_ENCODING_HT) IN
         [o |-> [conv EXCEPT !.dict = dictAdd(@, value, NULL)], r |-> 1]

\* [o |-> the set afterwards, r |-> 1 if value was removed, 0 if not a member]
setTypeRemove(setobj, value) ==
    IF setobj.encoding = REDIS_ENCODING_HT THEN
        IF dictFind(setobj.dict, value)
        THEN [o |-> [setobj EXCEPT !.dict = dictDelete(@, value)], r |-> 1]
        ELSE [o |-> setobj, r |-> 0]
    ELSE IF isObjectRepresentableAsLongLong(value)
            /\ string2ll(value) \in setobj.intset
         THEN [o |-> [setobj EXCEPT !.intset = @ \ {string2ll(value)}], r |-> 1]
         ELSE [o |-> setobj, r |-> 0]

setTypeIsMember(subject, value) ==
    IF subject.encoding = REDIS_ENCODING_HT THEN dictFind(subject.dict, value)
    ELSE isObjectRepresentableAsLongLong(value)
         /\ string2ll(value) \in subject.intset

-----------------------------------------------------------------------------
(* t_hash.c.  A ziplist-encoded hash is the sequence of its <<field, value>> *)
(* pairs in insertion order; a dict-encoded hash maps field to value.        *)

hashTypeLength(o) ==
    IF o.encoding = REDIS_ENCODING_ZIPLIST THEN Len(o.ziplist)
    ELSE dictSize(o.dict)

hashTypeConvertZiplist(o, enc) ==
    IF enc = REDIS_ENCODING_ZIPLIST THEN o
    ELSE [o EXCEPT !.encoding = REDIS_ENCODING_HT,
                   !.ziplist = <<>>,
                   !.dict = [f \in {o.ziplist[i][1] : i \in 1..Len(o.ziplist)} |->
                               LET i == CHOOSE i \in 1..Len(o.ziplist) :
                                            o.ziplist[i][1] = f
                               IN o.ziplist[i][2]]]

hashTypeConvert(o, enc) == hashTypeConvertZiplist(o, enc)

\* argv: the field and value arguments of the command
hashTypeTryConversion(o, argv) ==
    IF o.encoding # REDIS_ENCODING_ZIPLIST THEN o
    ELSE IF \E i \in 1..Len(argv) : sdslen(argv[i]) > server_hash_max_ziplist_value
         THEN hashTypeConvert(o, REDIS_ENCODING_HT)
         ELSE o

\* the index of field in the ziplist, 0 if absent (ziplistFind)
ziplistFind(zl, field) ==
    IF \E i \in 1..Len(zl) : zl[i][1] = field
    THEN CHOOSE i \in 1..Len(zl) : zl[i][1] = field
    ELSE 0

ziplistDelete(zl, i) == [n \in 1..(Len(zl) - 1) |-> IF n < i THEN zl[n] ELSE zl[n + 1]]

\* [o |-> the hash afterwards, update |-> 1 if field existed, 0 if inserted]
hashTypeSet(o, field, value) ==
    IF o.encoding = REDIS_ENCODING_ZIPLIST THEN
        LET fptr == ziplistFind(o.ziplist, field)
            zl == IF fptr # 0 THEN [o.ziplist EXCEPT ![fptr] = <<field, value>>]
                  ELSE Append(o.ziplist, <<field, value>>)
            set == [o EXCEPT !.ziplist = zl]
        IN [o |-> IF hashTypeLength(set) > server_hash_max_ziplist_entries
                  THEN hashTypeConvert(set, REDIS_ENCODING_HT) ELSE set,
            update |-> IF fptr # 0 THEN 1 ELSE 0]
    ELSE [o |-> [o EXCEPT !.dict = dictReplace(@, field, value)],
          update |-> IF dictFind(o.dict, field) THEN 1 ELSE 0]

\* [o |-> the hash afterwards, deleted |-> 1 if field was there, else 0]
hashTypeDelete(o, field) ==
    IF o.encoding = REDIS_ENCODING_ZIPLIST THEN
        LET fptr == ziplistFind(o.ziplist, field) IN
        IF fptr # 0
        THEN [o |-> [o EXCEPT !.ziplist = ziplistDelete(@, fptr)], deleted |-> 1]
        ELSE [o |-> o, deleted |-> 0]
    ELSE IF dictFind(o.dict, field)
         THEN [o |-> [o EXCEPT !.dict = dictDelete(@, field)], deleted |-> 1]
         ELSE [o |-> o, deleted |-> 0]

-----------------------------------------------------------------------------
(* The database namespace (db.c), as far as t_set.c, t_hash.c and rdb.c use  *)
(* it.  A database is [dict |-> key -> robj, expires |-> key -> deadline].   *)

emptyDb == [dict |-> emptyDict, expires |-> emptyDict]

\* the deadline of key, -1 if it has none
getExpire(d, key) == IF key \in DOMAIN d.expires THEN d.expires[key] ELSE -1

setExpire(d, key, when) == [d EXCEPT !.expires = dictReplace(@, key, when)]

dbAdd(d, key, val) == [d EXCEPT !.dict = dictAdd(@, key, val)]

\* the value of a key already present is replaced in place (robj pointer)
dbOverwrite(d, key, val) == [d EXCEPT !.dict = dictReplace(@, key, val)]

dbDelete(d, key) ==
    [dict |-> dictDelete(d.dict, key), expires |-> dictDelete(d.expires, key)]

\* a key whose deadline has passed is removed on access, unless this server
\* is a replica, which waits for the primary to delete it
expireIfNeeded(d, key) ==
    IF getExpire(d, key) # -1 /\ now > getExpire(d, key) /\ server.masterhost = NULL
    THEN dbDelete(d, key)
    ELSE d

\* [d |-> the database after lazy expiry, found |-> whether key is there]
lookupKeyWrite(d, key) ==
    LET e == expireIfNeeded(d, key) IN [d |-> e, found |-> key \in DOMAIN e.dict]

-----------------------------------------------------------------------------
(* Replies, in the text form the client reads *)

shared_ok == "+OK"
shared_err == "-ERR"
shared_wrongtypeerr == "-WRONGTYPE"
shared_czero == ":0"
shared_cone == ":1"
replyLongLong(n) == ":" \o ll2string(n)
replyBgsaveInProgress == "-ERR Background save already in progress"
replyAofInProgress == "-ERR Can't BGSAVE while AOF log rewriting is in progress"
replyBgsaveStarted == "+Background saving started"
noReply == ""

(* Lines of the log *)
noLog == ""
logOpenFailed == "Failed opening .rdb for saving"
logRenameFailed == "Error moving temp DB file on the final destination"
logSaved == "DB saved on disk"
logWriteError == "Write error saving DB on disk"
logForkFailed == "Can't save in background: fork"
logBgsaveStarted == "Background saving started by pid"
logBgsaveSuccess == "Background saving terminated with success"
logBgsaveError == "Background saving error"
logBgsaveSignal == "Background saving terminated by signal"

-----------------------------------------------------------------------------
(* Set and hash commands.  Each is a function of the client's database d and *)
(* the command's arguments and yields the database afterwards, the amount    *)
(* added to server.dirty and the reply.                                      *)

\* the loop of saddCommand over argv[from..]
RECURSIVE saddLoop(_, _, _, _)
saddLoop(set, argv, from, added) ==
    IF from > Len(argv) THEN [o |-> set, added |-> added]
    ELSE LET a == setTypeAdd(set, argv[from])
         IN saddLoop(a.o, argv, from + 1, added + a.r)

saddCommand(d, key, argv) ==
    LET lk == lookupKeyWrite(d, key) IN
    IF lk.found /\ lk.d.dict[key].type # REDIS_SET
    THEN [d |-> lk.d, dirty |-> 0, reply |-> shared_wrongtypeerr]
    ELSE LET created == IF lk.found THEN lk.d
                        ELSE dbAdd(lk.d, key, setTypeCreate(argv[1]))
             res == saddLoop(created.dict[key], argv, 1, 0)
         IN [d |-> dbOverwrite(created, key, res.o),
             dirty |-> res.added,
             reply |-> replyLongLong(res.added)]

\* the loop of sremCommand over argv[from..]; it stops at the removal that
\* empties the set
RECURSIVE sremLoop(_, _, _, _)
sremLoop(set, argv, from, deleted) ==
    IF from > Len(argv) THEN [o |-> set, deleted |-> deleted]
    ELSE LET r == setTypeRemove(set, argv[from]) IN
         IF r.r = 1 /\ setTypeSize(r.o) = 0
         THEN [o |-> r.o, deleted |-> deleted + 1]
         ELSE sremLoop(r.o, argv, from + 1, deleted + r.r)

\* an SREM that leaves the key in place when its last member is removed
sremCommand_keepsEmpty(d, key, argv) ==
    LET lk == lookupKeyWrite(d, key) IN
    IF ~lk.found THEN [d |-> lk.d, dirty |-> 0, reply |-> shared_czero]
    ELSE IF lk.d.dict[key].type # REDIS_SET
    THEN [d |-> lk.d, dirty |-> 0, reply |-> shared_wrongtypeerr]
    ELSE LET res == sremLoop(lk.d.dict[key], argv, 1, 0)
         IN [d |-> dbOverwrite(lk.d, key, res.o),
             dirty |-> res.deleted,
             reply |-> replyLongLong(res.deleted)]

sremCommand(d, key, argv) ==
    LET lk == lookupKeyWrite(d, key) IN
    IF ~lk.found THEN [d |-> lk.d, dirty |-> 0, reply |-> shared_czero]
    ELSE IF lk.d.dict[key].type # REDIS_SET
    THEN [d |-> lk.d, dirty |-> 0, reply |-> shared_wrongtypeerr]
    ELSE LET res == sremLoop(lk.d.dict[key], argv, 1, 0)
         IN [d |-> IF setTypeSize(res.o) = 0 THEN dbDelete(lk.d, key)
                   ELSE dbOverwrite(lk.d, key, res.o),
             dirty |-> res.deleted,
             reply |-> replyLongLong(res.deleted)]

\* [d |-> database, found |-> FALSE after a type error]
hashTypeLookupWriteOrCreate(d, key) ==
    LET lk == lookupKeyWrite(d, key) IN
    IF ~lk.found THEN [d |-> dbAdd(lk.d, key, createHashObject), found |-> TRUE]
    ELSE IF lk.d.dict[key].type # REDIS_HASH THEN [d |-> lk.d, found |-> FALSE]
    ELSE [d |-> lk.d, found |-> TRUE]

hsetCommand(d, key, field, value) ==
    LET lk == hashTypeLookupWriteOrCreate(d, key) IN
    IF ~lk.found THEN [d |-> lk.d, dirty |-> 0, reply |-> shared_wrongtypeerr]
    ELSE LET o == hashTypeTryConversion(lk.d.dict[key], <<field, value>>)
             res == hashTypeSet(o, field, value)
         IN [d |-> dbOverwrite(lk.d, key, res.o),
             dirty |-> 1,
             reply |-> IF res.update = 1 THEN shared_czero ELSE shared_cone]

\* the loop of hdelCommand over argv[from..]; it stops at the removal that
\* empties the hash
RECURSIVE hdelLoop(_, _, _, _)
hdelLoop(o, argv, from, deleted) ==
    IF from > Len(argv) THEN [o |-> o, deleted |-> deleted]
    ELSE LET r == hashTypeDelete(o, argv[from]) IN
         IF r.deleted = 1 /\ hashTypeLength(r.o) = 0
         THEN [o |-> r.o, deleted |-> deleted + 1]
         ELSE hdelLoop(r.o, argv, from + 1, deleted + r.deleted)

hdelCommand(d, key, argv) ==
    LET lk == lookupKeyWrite(d, key) IN
    IF ~lk.found THEN [d |-> lk.d, dirty |-> 0, reply |-> shared_czero]
    ELSE IF lk.d.dict[key].type # REDIS_HASH
    THEN [d |-> lk.d, dirty |-> 0, reply |-> shared_wrongtypeerr]
    ELSE LET res == hdelLoop(lk.d.dict[key], argv, 1, 0)
         IN [d |-> IF hashTypeLength(res.o) = 0 THEN dbDelete(lk.d, key)
                   ELSE dbOverwrite(lk.d, key, res.o),
             dirty |-> res.deleted,
             reply |-> replyLongLong(res.deleted)]

\* PEXPIREAT key when, for a deadline still ahead: it is recorded for an
\* existing key
expireCommand(d, key, when) ==
    LET lk == lookupKeyWrite(d, key) IN
    IF ~lk.found THEN [d |-> lk.d, dirty |-> 0, reply |-> shared_czero]
    ELSE [d |-> setExpire(lk.d, key, when), dirty |-> 1, reply |-> shared_cone]

-----------------------------------------------------------------------------
(* Commands that read sets and commands over several sets (t_set.c).  They   *)
(* yield, besides the database, the dirty amount and the head of the reply,  *)
(* the bulk strings of the reply in mbulk.                                   *)

shared_nullbulk == "$-1"
shared_emptymultibulk == "*0"
replyMultiBulkLen(n) == "*" \o ll2string(n)
\* the head of a reply that is one bulk string, which mbulk holds
replyBulk == "$"

\* a key whose deadline has passed is removed before a read as well
lookupKeyRead(d, key) ==
    LET e == expireIfNeeded(d, key) IN [d |-> e, found |-> key \in DOMAIN e.dict]

\* the integers of a finite set in ascending order (the order of an intset)
RECURSIVE intsetIterate(_)
intsetIterate(S) ==
    IF S = {} THEN <<>>
    ELSE LET x == CHOOSE x \in S : \A y \in S : x <= y
         IN <<x>> \o intsetIterate(S \ {x})

\* the members setTypeNextObject yields, as strings, in the iterator's order
setTypeElements(o) ==
    IF o.encoding = REDIS_ENCODING_HT THEN dictIterate(DOMAIN o.dict)
    ELSE LET it == intsetIterate(o.intset) IN [i \in 1..Len(it) |-> ll2string(it[i])]

\* the members setTypeRandomElement can yield, as the strings replied
setTypeRandomElements(o) ==
    IF o.encoding = REDIS_ENCODING_HT THEN DOMAIN o.dict
    ELSE {ll2string(i) : i \in o.intset}

\* the elements eles[from..] added in turn to the set dstset; n counts the
\* additions that reported a new member
RECURSIVE setTypeAddAll(_, _, _)
setTypeAddAll(dstset, eles, from) ==
    IF from > Len(eles) THEN [o |-> dstset, n |-> 0]
    ELSE LET a == setTypeAdd(dstset, eles[from])
             rest == setTypeAddAll(a.o, eles, from + 1)
         IN [o |-> rest.o, n |-> a.r + rest.n]

\* the elements eles[from..] removed in turn from the set dstset; n counts
\* the removals that reported a member
RECURSIVE setTypeRemoveAll(_, _, _)
setTypeRemoveAll(dstset, eles, from) ==
    IF from > Len(eles) THEN [o |-> dstset, n |-> 0]
    ELSE LET r == setTypeRemove(dstset, eles[from])
             rest == setTypeRemoveAll(r.o, eles, from + 1)
         IN [o |-> rest.o, n |-> r.r + rest.n]

\* the subsequence of the elements of seq[from..] that are in keep
RECURSIVE SelectFrom(_, _, _)
SelectFrom(seq, keep, from) ==
    IF from > Len(seq) THEN <<>>
    ELSE (IF seq[from] \in keep THEN <<seq[from]>> ELSE <<>>)
         \o SelectFrom(seq, keep, from + 1)

smoveCommand(d, src, dst, ele) ==
    LET lk1 == lookupKeyWrite(d, src)
        lk2 == lookupKeyWrite(lk1.d, dst)
        d2 == lk2.d
        srcfound == src \in DOMAIN d2.dict
    IN
    IF ~srcfound THEN [d |-> d2, dirty |-> 0, reply |-> shared_czero]
    ELSE IF d2.dict[src].type # REDIS_SET
            \/ (lk2.found /\ d2.dict[dst].type # REDIS_SET)
    THEN [d |-> d2, dirty |-> 0, reply |-> shared_wrongtypeerr]
    ELSE IF lk2.found /\ src = dst
    THEN [d |-> d2, dirty |-> 0, reply |-> shared_cone]
    ELSE LET rem == setTypeRemove(d2.dict[src], ele) IN
    IF rem.r = 0 THEN [d |-> d2, dirty |-> 0, reply |-> shared_czero]
    ELSE LET d3 == IF setTypeSize(rem.o) = 0 THEN dbDelete(d2, src)
                   ELSE dbOverwrite(d2, src, rem.o)
             d4 == IF lk2.found THEN d3 ELSE dbAdd(d3, dst, setTypeCreate(ele))
             add == setTypeAdd(d4.dict[dst], ele)
         IN [d |-> dbOverwrite(d4, dst, add.o),
             dirty |-> 1 + add.r,
             reply |-> shared_cone]

sismemberCommand(d, key, ele) ==
    LET lk == lookupKeyRead(d, key) IN
    IF ~lk.found THEN [d |-> lk.d, dirty |-> 0, reply |-> shared_czero]
    ELSE IF lk.d.dict[key].type # REDIS_SET
    THEN [d |-> lk.d, dirty |-> 0, reply |-> shared_wrongtypeerr]
    ELSE [d |-> lk.d, dirty |-> 0,
          reply |-> IF setTypeIsMember(lk.d.dict[key], ele)
                    THEN shared_cone ELSE shared_czero]

\* SPOP key, ele being the member setTypeRandomElement yields
spopCommand(d, key, ele) ==
    LET lk == lookupKeyWrite(d, key) IN
    IF ~lk.found
    THEN [d |-> lk.d, dirty |-> 0, reply |-> shared_nullbulk, mbulk |-> <<>>]
    ELSE IF lk.d.dict[key].type # REDIS_SET
    THEN [d |-> lk.d, dirty |-> 0, reply |-> shared_wrongtypeerr, mbulk |-> <<>>]
    ELSE LET rem == setTypeRemove(lk.d.dict[key], ele).o
         IN [d |-> IF setTypeSize(rem) = 0 THEN dbDelete(lk.d, key)
                   ELSE dbOverwrite(lk.d, key, rem),
             dirty |-> 1,
             reply |-> replyBulk,
             mbulk |-> <<ele>>]

\* the keys setkeys[from..] looked up in turn (for writing when the command
\* stores its result), each lookup removing a key past its deadline
RECURSIVE lookupSets(_, _, _, _)
lookupSets(d, setkeys, from, forWrite) ==
    IF from > Len(setkeys) THEN d
    ELSE lookupSets((IF forWrite THEN lookupKeyWrite(d, setkeys[from])
                     ELSE lookupKeyRead(d, setkeys[from])).d,
                    setkeys, from + 1, forWrite)

\* the keys setkeys[1..upto] looked up in turn
RECURSIVE lookupSetsUpto(_, _, _, _)
lookupSetsUpto(d, setkeys, upto, forWrite) ==
    IF upto = 0 THEN d
    ELSE LET before == lookupSetsUpto(d, setkeys, upto - 1, forWrite)
         IN (IF forWrite THEN lookupKeyWrite(before, setkeys[upto])
             ELSE lookupKeyRead(before, setkeys[upto])).d

\* whether the string object ele is held as an integer (tryObjectEncoding)
isEncodingInt(ele) == isObjectRepresentableAsLongLong(ele)

\* a membership test that takes an element of a hash table set for a member
\* of every intset
sinterIsMember_skipsIntset(other, ele, enc) ==
    IF enc = REDIS_ENCODING_INTSET THEN
        IF other.encoding = REDIS_ENCODING_INTSET
        THEN string2ll(ele) \in other.intset
        ELSE setTypeIsMember(other, ele)
    ELSE
        IF other.encoding = REDIS_ENCODING_INTSET
        THEN TRUE
        ELSE setTypeIsMember(other, ele)

\* the test sinterGenericCommand makes of the element ele, which it took
\* from a set encoded enc, against the other set
sinterIsMember(other, ele, enc) ==
    IF enc = REDIS_ENCODING_INTSET THEN
        IF other.encoding = REDIS_ENCODING_INTSET
        THEN string2ll(ele) \in other.intset
        ELSE setTypeIsMember(other, ele)
    ELSE
        IF isEncodingInt(ele) /\ other.encoding = REDIS_ENCODING_INTSET
           /\ string2ll(ele) \notin other.intset
        THEN FALSE
        ELSE setTypeIsMember(other, ele)

\* a store that puts the result in place of the old value and, for an empty
\* result, removes only the keyspace entry
storeSet_keepsExpire(d, dstkey, dstset) ==
    IF setTypeSize(dstset) > 0
    THEN [d |-> dbOverwrite(d, dstkey, dstset), dirty |-> 1,
          reply |-> replyLongLong(setTypeSize(dstset)), mbulk |-> <<>>]
    ELSE [d |-> [d EXCEPT !.dict = dictDelete(@, dstkey)], dirty |-> 1,
          reply |-> shared_czero, mbulk |-> <<>>]

\* how a command that stores a set ends: the destination is deleted and,
\* unless the result is empty, added again with the result
storeSet(d, dstkey, dstset) ==
    LET deleted == dbDelete(d, dstkey) IN
    IF setTypeSize(dstset) > 0
    THEN [d |-> dbAdd(deleted, dstkey, dstset), dirty |-> 1,
          reply |-> replyLongLong(setTypeSize(dstset)), mbulk |-> <<>>]
    ELSE [d |-> deleted, dirty |-> 1, reply |-> shared_czero, mbulk |-> <<>>]

\* SINTER setkeys (dstkey = NULL) and SINTERSTORE dstkey setkeys.  first is
\* the position in setkeys of the set qsort puts first, one of the smallest.
sinterGenericCommand(d, setkeys, dstkey, first) ==
    LET n == Len(setkeys)
        forWrite == dstkey # NULL
        \* the first key that is absent or no set when it is looked up
        bad == {j \in 1..n :
                  LET dj == lookupSetsUpto(d, setkeys, j, forWrite) IN
                  setkeys[j] \notin DOMAIN dj.dict
                  \/ dj.dict[setkeys[j]].type # REDIS_SET}
    IN
    IF bad # {} THEN
        LET j == CHOOSE j \in bad : \A i \in bad : j <= i
            dj == lookupSetsUpto(d, setkeys, j, forWrite)
        IN IF setkeys[j] \notin DOMAIN dj.dict
           THEN IF forWrite
                THEN [d |-> dbDelete(dj, dstkey),
                      dirty |-> IF dstkey \in DOMAIN dj.dict THEN 1 ELSE 0,
                      reply |-> shared_czero, mbulk |-> <<>>]
                ELSE [d |-> dj, dirty |-> 0,
                      reply |-> shared_emptymultibulk, mbulk |-> <<>>]
           ELSE [d |-> dj, dirty |-> 0, reply |-> shared_wrongtypeerr, mbulk |-> <<>>]
    ELSE
        LET dn == lookupSets(d, setkeys, 1, forWrite)
            set0 == dn.dict[setkeys[first]]
            InAll(ele) ==
                \A j \in 1..n :
                    \/ setkeys[j] = setkeys[first]
                    \/ sinterIsMember(dn.dict[setkeys[j]], ele, set0.encoding)
            eles == setTypeElements(set0)
            result == SelectFrom(eles, {eles[i] : i \in {i \in 1..Len(eles) :
                                                            InAll(eles[i])}}, 1)
        IN IF forWrite
           THEN storeSet(dn, dstkey, setTypeAddAll(createIntsetObject, result, 1).o)
           ELSE [d |-> dn, dirty |-> 0,
                 reply |-> replyMultiBulkLen(Len(result)), mbulk |-> result]

\* the positions qsort may put first: those of the sets of least cardinality
sinterFirsts(d, setkeys) ==
    {i \in 1..Len(setkeys) :
        \A j \in 1..Len(setkeys) :
            (setkeys[i] \in DOMAIN d.dict /\ setkeys[j] \in DOMAIN d.dict
             /\ d.dict[setkeys[i]].type = REDIS_SET
             /\ d.dict[setkeys[j]].type = REDIS_SET)
            => setTypeSize(d.dict[setkeys[i]]) <= setTypeSize(d.dict[setkeys[j]])}

REDIS_OP_UNION == "UNION"
REDIS_OP_DIFF == "DIFF"

\* the sum of f[i] over i in 1..n
RECURSIVE SumUpto(_, _)
SumUpto(f, n) == IF n = 0 THEN 0 ELSE f[n] + SumUpto(f, n - 1)

\* the algorithm SDIFF takes for the sets at setkeys in d
sdiffAlgo(d, setkeys) ==
    LET n == Len(setkeys)
        present(j) == setkeys[j] \in DOMAIN d.dict
        size0 == setTypeSize(d.dict[setkeys[1]])
        algo_one_work == SumUpto([j \in 1..n |-> IF present(j) THEN size0 ELSE 0], n)
        algo_two_work == SumUpto([j \in 1..n |-> IF present(j)
                                                 THEN setTypeSize(d.dict[setkeys[j]])
                                                 ELSE 0], n)
    IN IF algo_one_work \div 2 <= algo_two_work THEN 1 ELSE 2

\* algorithm 2 from the set at setkeys[j] on: its members are taken out of
\* the result res = [o, n], n being the local cardinality; the loop ends
\* once cardinality is 0
RECURSIVE sdiffAlgo2(_, _, _, _)
sdiffAlgo2(d, setkeys, j, res) ==
    IF j > Len(setkeys) \/ res.n = 0 THEN res
    ELSE IF setkeys[j] \notin DOMAIN d.dict THEN sdiffAlgo2(d, setkeys, j + 1, res)
    ELSE LET rem == setTypeRemoveAll(res.o, setTypeElements(d.dict[setkeys[j]]), 1)
         IN sdiffAlgo2(d, setkeys, j + 1, [o |-> rem.o, n |-> res.n - rem.n])

\* a difference whose algorithm 1 passes over the first set when it meets it
\* again among the others, instead of dropping the element
sdiffResult_skipsSelf(d, setkeys, algo) ==
    LET n == Len(setkeys)
        set0 == d.dict[setkeys[1]]
        InNone(ele) ==
            \A j \in 2..n :
                \/ setkeys[j] \notin DOMAIN d.dict
                \/ setkeys[j] = setkeys[1]
                \/ ~setTypeIsMember(d.dict[setkeys[j]], ele)
        eles == setTypeElements(set0)
        kept == SelectFrom(eles, {eles[i] : i \in {i \in 1..Len(eles) :
                                                      InNone(eles[i])}}, 1)
    IN IF algo = 1
       THEN [o |-> setTypeAddAll(createIntsetObject, kept, 1).o, n |-> Len(kept)]
       ELSE sdiffAlgo2(d, setkeys, 2,
                       setTypeAddAll(createIntsetObject, setTypeElements(set0), 1))

\* the difference computed by algorithm algo: [o |-> the result set,
\* n |-> the local cardinality]
sdiffResult(d, setkeys, algo) ==
    LET n == Len(setkeys)
        set0 == d.dict[setkeys[1]]
        InNone(ele) ==
            \A j \in 2..n :
                \/ setkeys[j] \notin DOMAIN d.dict
                \/ /\ setkeys[j] # setkeys[1]
                   /\ ~setTypeIsMember(d.dict[setkeys[j]], ele)
        eles == setTypeElements(set0)
        kept == SelectFrom(eles, {eles[i] : i \in {i \in 1..Len(eles) :
                                                      InNone(eles[i])}}, 1)
    IN IF algo = 1
       THEN [o |-> setTypeAddAll(createIntsetObject, kept, 1).o, n |-> Len(kept)]
       ELSE sdiffAlgo2(d, setkeys, 2,
                       setTypeAddAll(createIntsetObject, setTypeElements(set0), 1))

\* the union of the sets at setkeys[j..] added to res = [o, n]
RECURSIVE sunionResult(_, _, _, _)
sunionResult(d, setkeys, j, res) ==
    IF j > Len(setkeys) THEN res
    ELSE IF setkeys[j] \notin DOMAIN d.dict THEN sunionResult(d, setkeys, j + 1, res)
    ELSE LET add == setTypeAddAll(res.o, setTypeElements(d.dict[setkeys[j]]), 1)
         IN sunionResult(d, setkeys, j + 1, [o |-> add.o, n |-> res.n + add.n])

\* SUNION, SDIFF (dstkey = NULL), SUNIONSTORE and SDIFFSTORE
sunionDiffGenericCommand(d, setkeys, dstkey, op) ==
    LET n == Len(setkeys)
        forWrite == dstkey # NULL
        bad == {j \in 1..n :
                  LET dj == lookupSetsUpto(d, setkeys, j, forWrite) IN
                  setkeys[j] \in DOMAIN dj.dict
                  /\ dj.dict[setkeys[j]].type # REDIS_SET}
    IN
    IF bad # {} THEN
        LET j == CHOOSE j \in bad : \A i \in bad : j <= i
        IN [d |-> lookupSetsUpto(d, setkeys, j, forWrite), dirty |-> 0,
            reply |-> shared_wrongtypeerr, mbulk |-> <<>>]
    ELSE
        LET dn == lookupSets(d, setkeys, 1, forWrite)
            res ==
                IF op = REDIS_OP_UNION
                THEN sunionResult(dn, setkeys, 1, [o |-> createIntsetObject, n |-> 0])
                ELSE IF setkeys[1] \in DOMAIN dn.dict
                THEN sdiffResult(dn, setkeys, sdiffAlgo(dn, setkeys))
                ELSE [o |-> createIntsetObject, n |-> 0]
        IN IF forWrite THEN storeSet(dn, dstkey, res.o)
           ELSE [d |-> dn, dirty |-> 0,
                 reply |-> replyMultiBulkLen(res.n),
                 mbulk |-> setTypeElements(res.o)]

\* a long as the pair of its multiple of 2^32 and the rest: hi * 2^32 + lo
\* with lo small; a negative long has hi = 0
long(hi, lo) == [hi |-> hi, lo |-> lo]

\* the count arguments beyond the range of an unsigned int, with their values
BigLongs ==
    {[s |-> "4294967296", l |-> long(1, 0)],
     [s |-> "4294967297", l |-> long(1, 1)]}

\* getLongFromObjectOrReply for the text s of a long
getLongFromObject(s) ==
    IF isObjectRepresentableAsLongLong(s) THEN long(0, string2ll(s))
    ELSE (CHOOSE b \in BigLongs : b.s = s).l

\* l >= 0
longIsNatural(l) == l.hi > 0 \/ (l.hi = 0 /\ l.lo >= 0)

\* (unsigned) l for l >= 0: the value modulo 2^32
castUnsigned(l) == l.lo

\* SRANDMEMBER key count.  picks holds what the random source yields: for a
\* negative count the members drawn, one per element of the reply; for a
\* count below the size of the set the members taken out of the copy of the
\* set (count * 3 > size) or the distinct members drawn (otherwise).
srandmemberWithCountCommand(d, key, arg, picks) ==
    LET l == getLongFromObject(arg)
        uniq == longIsNatural(l)
        count == IF longIsNatural(l) THEN castUnsigned(l) ELSE -l.lo
        lk == lookupKeyRead(d, key)
    IN
    IF ~lk.found
    THEN [d |-> lk.d, dirty |-> 0, reply |-> shared_emptymultibulk, mbulk |-> <<>>]
    ELSE IF lk.d.dict[key].type # REDIS_SET
    THEN [d |-> lk.d, dirty |-> 0, reply |-> shared_wrongtypeerr, mbulk |-> <<>>]
    ELSE LET set == lk.d.dict[key]
             size == setTypeSize(set)
         IN
         IF count = 0
         THEN [d |-> lk.d, dirty |-> 0, reply |-> shared_emptymultibulk, mbulk |-> <<>>]
         ELSE IF ~uniq
         THEN [d |-> lk.d, dirty |-> 0,
               reply |-> replyMultiBulkLen(count), mbulk |-> picks]
         ELSE IF count >= size
         THEN sunionDiffGenericCommand(lk.d, <<key>>, NULL, REDIS_OP_UNION)
         ELSE IF count * 3 > size
         THEN [d |-> lk.d, dirty |-> 0,
               reply |-> replyMultiBulkLen(count),
               mbulk |-> dictIterate(setTypeRandomElements(set)
                                     \ {picks[i] : i \in 1..Len(picks)})]
         ELSE [d |-> lk.d, dirty |-> 0,
               reply |-> replyMultiBulkLen(count),
               mbulk |-> dictIterate({picks[i] : i \in 1..Len(picks)})]

\* the sequences of members the random source can yield to the command
srandmemberPicks(d, key, arg) ==
    LET l == getLongFromObject(arg)
        count == IF longIsNatural(l) THEN castUnsigned(l) ELSE -l.lo
        lk == lookupKeyRead(d, key)
        members == IF lk.found /\ lk.d.dict[key].type = REDIS_SET
                   THEN setTypeRandomElements(lk.d.dict[key]) ELSE {}
        size == Cardinality(members)
        Distinct(seq) == \A i, j \in 1..Len(seq) : seq[i] = seq[j] => i = j
    IN IF members = {} \/ count = 0 THEN {<<>>}
       ELSE IF ~longIsNatural(l) THEN [1..count -> members]
       ELSE IF count >= size THEN {<<>>}
       ELSE IF count * 3 > size
       THEN {seq \in [1..(size - count) -> members] : Distinct(seq)}
       ELSE {seq \in [1..count -> members] : Distinct(seq)}

-----------------------------------------------------------------------------
(* More hash commands (t_hash.c) *)

hashTypeExists(o, field) ==
    IF o.encoding = REDIS_ENCODING_ZIPLIST THEN ziplistFind(o.ziplist, field) # 0
    ELSE dictFind(o.dict, field)

\* the value of field, NULL when the hash has no such field
hashTypeGetObject(o, field) ==
    IF ~hashTypeExists(o, field) THEN NULL
    ELSE IF o.encoding = REDIS_ENCODING_ZIPLIST
         THEN o.ziplist[ziplistFind(o.ziplist, field)][2]
         ELSE o.dict[field]

hsetnxCommand(d, key, field, value) ==
    LET lk == hashTypeLookupWriteOrCreate(d, key) IN
    IF ~lk.found THEN [d |-> lk.d, dirty |-> 0, reply |-> shared_wrongtypeerr]
    ELSE LET o == hashTypeTryConversion(lk.d.dict[key], <<field, value>>) IN
         IF hashTypeExists(o, field)
         THEN [d |-> dbOverwrite(lk.d, key, o), dirty |-> 0, reply |-> shared_czero]
         ELSE [d |-> dbOverwrite(lk.d, key, hashTypeSet(o, field, value).o),
               dirty |-> 1, reply |-> shared_cone]

\* the pairs argv[from], argv[from + 1], ... set in turn
RECURSIVE hmsetLoop(_, _, _)
hmsetLoop(o, argv, from) ==
    IF from > Len(argv) THEN o
    ELSE hmsetLoop(hashTypeSet(o, argv[from], argv[from + 1]).o, argv, from + 2)

\* HMSET key argv[1] argv[2] ... with an even number of arguments
hmsetCommand(d, key, argv) ==
    LET lk == hashTypeLookupWriteOrCreate(d, key) IN
    IF ~lk.found THEN [d |-> lk.d, dirty |-> 0, reply |-> shared_wrongtypeerr]
    ELSE LET o == hashTypeTryConversion(lk.d.dict[key], argv)
         IN [d |-> dbOverwrite(lk.d, key, hmsetLoop(o, argv, 1)),
             dirty |-> 1, reply |-> shared_ok]

replyNotAnInteger == "-ERR hash value is not an integer"
replyNotAFloat == "-ERR hash value is not a valid float"

\* HINCRBY key field incr, incr being the text of an integer
\* the range of a long long, scaled to the integers string2ll is tabulated
\* for
LLONG_MAX == MaxLL
LLONG_MIN == -MaxLL
replyOverflow == "-ERR increment or decrement would overflow"

\* value += incr in a long long, wrapping around
wrapLongLong(v) ==
    IF v > LLONG_MAX THEN v - (LLONG_MAX - LLONG_MIN + 1)
    ELSE IF v < LLONG_MIN THEN v + (LLONG_MAX - LLONG_MIN + 1)
    ELSE v

\* an HINCRBY that adds without testing for overflow
hincrbyCommand_unchecked(d, key, field, incr) ==
    LET lk == hashTypeLookupWriteOrCreate(d, key) IN
    IF ~lk.found THEN [d |-> lk.d, dirty |-> 0, reply |-> shared_wrongtypeerr]
    ELSE LET o == lk.d.dict[key]
             current == hashTypeGetObject(o, field)
         IN IF current # NULL /\ ~isObjectRepresentableAsLongLong(current)
            THEN [d |-> lk.d, dirty |-> 0, reply |-> replyNotAnInteger]
            ELSE LET oldvalue == IF current # NULL THEN string2ll(current) ELSE 0
                     value == wrapLongLong(oldvalue + string2ll(incr))
                 IN [d |-> dbOverwrite(lk.d, key,
                                       hashTypeSet(o, field, ll2string(value)).o),
                     dirty |-> 1, reply |-> replyLongLong(value)]

hincrbyCommand(d, key, field, incr) ==
    LET lk == hashTypeLookupWriteOrCreate(d, key) IN
    IF ~lk.found THEN [d |-> lk.d, dirty |-> 0, reply |-> shared_wrongtypeerr]
    ELSE LET o == lk.d.dict[key]
             current == hashTypeGetObject(o, field)
         IN IF current # NULL /\ ~isObjectRepresentableAsLongLong(current)
            THEN [d |-> lk.d, dirty |-> 0, reply |-> replyNotAnInteger]
            ELSE LET oldvalue == IF current # NULL THEN string2ll(current) ELSE 0
                     incrv == string2ll(incr)
                 IN IF \/ (incrv < 0 /\ oldvalue < 0 /\ incrv < LLONG_MIN - oldvalue)
                       \/ (incrv > 0 /\ oldvalue > 0 /\ incrv > LLONG_MAX - oldvalue)
                    THEN [d |-> lk.d, dirty |-> 0, reply |-> replyOverflow]
                    ELSE LET value == oldvalue + incrv
                         IN [d |-> dbOverwrite(lk.d, key,
                                               hashTypeSet(o, field,
                                                           ll2string(value)).o),
                             dirty |-> 1, reply |-> replyLongLong(value)]

\* HINCRBYFLOAT key field incr for an increment and a current value that are
\* whole numbers: the sum is stored in the text form without a fraction
hincrbyfloatCommand(d, key, field, incr) ==
    LET lk == hashTypeLookupWriteOrCreate(d, key) IN
    IF ~lk.found
    THEN [d |-> lk.d, dirty |-> 0, reply |-> shared_wrongtypeerr, mbulk |-> <<>>]
    ELSE LET o == lk.d.dict[key]
             current == hashTypeGetObject(o, field)
         IN IF current # NULL /\ ~isObjectRepresentableAsLongLong(current)
            THEN [d |-> lk.d, dirty |-> 0, reply |-> replyNotAFloat, mbulk |-> <<>>]
            ELSE LET oldvalue == IF current # NULL THEN string2ll(current) ELSE 0
                     new == ll2string(oldvalue + string2ll(incr))
                 IN [d |-> dbOverwrite(lk.d, key, hashTypeSet(o, field, new).o),
                     dirty |-> 1, reply |-> replyBulk, mbulk |-> <<new>>]

-----------------------------------------------------------------------------
(* The RDB format (rdb.c).  A file is the sequence of the records written    *)
(* to it; a record is one opcode or type byte with what follows it.         *)

REDIS_RDB_VERSION == 6
REDIS_RDB_OPCODE_EXPIRETIME_MS == "EXPIRETIME_MS"
REDIS_RDB_OPCODE_SELECTDB == "SELECTDB"
REDIS_RDB_OPCODE_EOF == "EOF"
REDIS_RDB_TYPE_SET == "TYPE_SET"
REDIS_RDB_TYPE_HASH == "TYPE_HASH"
REDIS_RDB_TYPE_SET_INTSET == "TYPE_SET_INTSET"
REDIS_RDB_TYPE_HASH_ZIPLIST == "TYPE_HASH_ZIPLIST"

(* Lengths.  A uint32_t is the tuple of its four bytes, most significant     *)
(* first, which is the order htonl gives them on the wire.                  *)

REDIS_RDB_6BITLEN == 0
REDIS_RDB_14BITLEN == 1
REDIS_RDB_32BITLEN == 2
REDIS_RDB_ENCVAL == 3
\* UINT_MAX, what rdbLoadLen returns when it cannot read
REDIS_RDB_LENERR == <<255, 255, 255, 255>>

\* the uint32_t of a value below 2^16 given as a number
uint32(n) == <<0, 0, n \div 256, n % 256>>

\* rdbSaveLen(rdb, len): the bytes written
rdbSaveLen(len) ==
    IF len[1] = 0 /\ len[2] = 0 /\ len[3] = 0 /\ len[4] < 64
    THEN <<len[4] + REDIS_RDB_6BITLEN * 64>>
    ELSE IF len[1] = 0 /\ len[2] = 0 /\ len[3] < 64
    THEN <<len[3] + REDIS_RDB_14BITLEN * 64, len[4]>>
    ELSE <<REDIS_RDB_32BITLEN * 64>> \o len

\* rdbLoadLen(rdb, &isencoded) over the bytes buf left to read:
\* [ret |-> the uint32_t returned, isencoded |-> 0 or 1]
rdbLoadLen(buf) ==
    IF Len(buf) < 1 THEN [ret |-> REDIS_RDB_LENERR, isencoded |-> 0]
    ELSE LET type == buf[1] \div 64 IN
         IF type = REDIS_RDB_ENCVAL
         THEN [ret |-> uint32(buf[1] % 64), isencoded |-> 1]
         ELSE IF type = REDIS_RDB_6BITLEN
         THEN [ret |-> uint32(buf[1] % 64), isencoded |-> 0]
         ELSE IF type = REDIS_RDB_14BITLEN
         THEN IF Len(buf) < 2 THEN [ret |-> REDIS_RDB_LENERR, isencoded |-> 0]
              ELSE [ret |-> uint32((buf[1] % 64) * 256 + buf[2]), isencoded |-> 0]
         ELSE IF Len(buf) < 5 THEN [ret |-> REDIS_RDB_LENERR, isencoded |-> 0]
              ELSE [ret |-> SubSeq(buf, 2, 5), isencoded |-> 0]

\* a string as the string writer stores it: as an integer when it is the
\* decimal text of one and at most 11 bytes long, else as its bytes
rdbSaveRawString(s) ==
    IF sdslen(s) <= 11 /\ isObjectRepresentableAsLongLong(s)
    THEN [form |-> "int", ival |-> string2ll(s), sval |-> ""]
    ELSE [form |-> "raw", ival |-> 0, sval |-> s]

rdbSaveStringObject(s) == rdbSaveRawString(s)

\* a reader that takes the bytes of every stored string
rdbGenericLoadStringObject_bytes(e) == e.sval

\* the string the reader rebuilds from a stored string
rdbGenericLoadStringObject(e) ==
    IF e.form = "int" THEN ll2string(e.ival) ELSE e.sval

rdbSaveObjectType(o) ==
    IF o.type = REDIS_SET THEN
        IF o.encoding = REDIS_ENCODING_INTSET THEN REDIS_RDB_TYPE_SET_INTSET
        ELSE REDIS_RDB_TYPE_SET
    ELSE IF o.encoding = REDIS_ENCODING_ZIPLIST THEN REDIS_RDB_TYPE_HASH_ZIPLIST
         ELSE REDIS_RDB_TYPE_HASH

emptyPayload == [len |-> 0, elems |-> <<>>, intset |-> {}, ziplist |-> <<>>]

\* what follows the key: the natural form (count, then every element through
\* the string writer) or the compact form (the intset or ziplist as a blob)
rdbSaveObject(o) ==
    IF o.type = REDIS_SET THEN
        IF o.encoding = REDIS_ENCODING_HT THEN
            LET it == dictIterate(DOMAIN o.dict) IN
            [emptyPayload EXCEPT !.len = dictSize(o.dict),
                 !.elems = [i \in 1..Len(it) |-> <<rdbSaveStringObject(it[i])>>]]
        ELSE [emptyPayload EXCEPT !.intset = o.intset]
    ELSE
        IF o.encoding = REDIS_ENCODING_ZIPLIST THEN
            [emptyPayload EXCEPT !.ziplist = o.ziplist]
        ELSE
            LET it == dictIterate(DOMAIN o.dict) IN
            [emptyPayload EXCEPT !.len = dictSize(o.dict),
                 !.elems = [i \in 1..Len(it) |->
                               <<rdbSaveStringObject(it[i]),
                                 rdbSaveStringObject(o.dict[it[i]])>>]]

\* the records rdbSaveKeyValuePair appends: none for a key already expired
rdbSaveKeyValuePair(key, val, expiretime, nowms) ==
    IF expiretime # -1 /\ expiretime < nowms THEN <<>>
    ELSE (IF expiretime # -1
          THEN <<[op |-> REDIS_RDB_OPCODE_EXPIRETIME_MS, t |-> expiretime]>>
          ELSE <<>>)
         \o <<[op |-> rdbSaveObjectType(val),
               key |-> rdbSaveStringObject(key),
               val |-> rdbSaveObject(val)]>>

\* the running checksum of the records written or read so far
rioChecksum(data) == Len(data)

\* loading a natural-form set: elems[from..] are added to o
RECURSIVE rdbLoadSetElems(_, _, _)
rdbLoadSetElems(o, elems, from) ==
    IF from > Len(elems) THEN o
    ELSE LET ele == rdbGenericLoadStringObject(elems[from][1])
             conv == IF o.encoding = REDIS_ENCODING_INTSET
                     THEN IF isObjectRepresentableAsLongLong(ele)
                          THEN [o EXCEPT !.intset = @ \cup {string2ll(ele)}]
                          ELSE setTypeConvert(o, REDIS_ENCODING_HT)
                     ELSE o
             added == IF conv.encoding = REDIS_ENCODING_HT
                      THEN [conv EXCEPT !.dict = dictAdd(@, ele, NULL)]
                      ELSE conv
         IN rdbLoadSetElems(added, elems, from + 1)

\* loading a natural-form hash: elems[from..] are added to o
RECURSIVE rdbLoadHashElems(_, _, _)
rdbLoadHashElems(o, elems, from) ==
    IF from > Len(elems) THEN o
    ELSE LET field == rdbGenericLoadStringObject(elems[from][1])
             value == rdbGenericLoadStringObject(elems[from][2])
         IN IF o.encoding = REDIS_ENCODING_ZIPLIST
            THEN LET pushed == [o EXCEPT !.ziplist = Append(@, <<field, value>>)]
                 IN rdbLoadHashElems(
                        IF sdslen(field) > server_hash_max_ziplist_value
                           \/ sdslen(value) > server_hash_max_ziplist_value
                        THEN hashTypeConvert(pushed, REDIS_ENCODING_HT)
                        ELSE pushed,
                        elems, from + 1)
            ELSE rdbLoadHashElems([o EXCEPT !.dict = dictAdd(@, field, value)],
                                  elems, from + 1)

rdbLoadObject(rdbtype, p) ==
    IF rdbtype = REDIS_RDB_TYPE_SET THEN
        rdbLoadSetElems(IF p.len > server_set_max_intset_entries
                        THEN createSetObject ELSE createIntsetObject,
                        p.elems, 1)
    ELSE IF rdbtype = REDIS_RDB_TYPE_HASH THEN
        rdbLoadHashElems(IF p.len > server_hash_max_ziplist_entries
                         THEN hashTypeConvert(createHashObject, REDIS_ENCODING_HT)
                         ELSE createHashObject,
                         p.elems, 1)
    ELSE IF rdbtype = REDIS_RDB_TYPE_SET_INTSET THEN
        LET o == [createIntsetObject EXCEPT !.intset = p.intset] IN
        IF Cardinality(o.intset) > server_set_max_intset_entries
        THEN setTypeConvert(o, REDIS_ENCODING_HT) ELSE o
    ELSE
        LET o == [createHashObject EXCEPT !.ziplist = p.ziplist] IN
        IF hashTypeLength(o) > server_hash_max_ziplist_entries
        THEN hashTypeConvert(o, REDIS_ENCODING_HT) ELSE o

isObjectType(op) ==
    op \in {REDIS_RDB_TYPE_SET, REDIS_RDB_TYPE_HASH,
            REDIS_RDB_TYPE_SET_INTSET, REDIS_RDB_TYPE_HASH_ZIPLIST}

\* a loader that drops keys past their deadline whatever the server's role
rdbLoadSkipsKey_anyRole(master, expiretime, nowms) ==
    expiretime # -1 /\ expiretime < nowms

\* the test of rdbLoad for a key it reads and does not add: the server is
\* a primary and the key's deadline has passed
rdbLoadSkipsKey(master, expiretime, nowms) ==
    master = NULL /\ expiretime # -1 /\ expiretime < nowms

\* the record loop of rdbLoad from data[i], with the databases dbs built so
\* far and the selected database dbid.  ret is REDIS_OK, or "exit" when the
\* loader ends the process (short read, unknown type, wrong checksum,
\* database index out of range).
RECURSIVE rdbLoadRecords(_, _, _, _, _, _)
rdbLoadRecords(data, i, dbs, dbid, nowms, master) ==
    IF i > Len(data) THEN [ret |-> "exit", db |-> dbs]
    ELSE
    LET hasExpire == data[i].op = REDIS_RDB_OPCODE_EXPIRETIME_MS
        expiretime == IF hasExpire THEN data[i].t ELSE -1
        \* the position of the type byte read after the deadline
        n == IF hasExpire THEN i + 1 ELSE i
    IN
    IF n > Len(data) THEN [ret |-> "exit", db |-> dbs]
    ELSE LET r == data[n] IN
    IF r.op = REDIS_RDB_OPCODE_EOF THEN
        IF n + 1 > Len(data) THEN [ret |-> "exit", db |-> dbs]
        ELSE IF data[n + 1].op # "CKSUM" THEN [ret |-> "exit", db |-> dbs]
        ELSE IF data[n + 1].cksum = 0 THEN [ret |-> REDIS_OK, db |-> dbs]
        ELSE IF data[n + 1].cksum # rioChecksum(SubSeq(data, 1, n))
             THEN [ret |-> "exit", db |-> dbs]
             ELSE [ret |-> REDIS_OK, db |-> dbs]
    ELSE IF r.op = REDIS_RDB_OPCODE_SELECTDB THEN
        IF r.dbid \notin DbIds THEN [ret |-> "exit", db |-> dbs]
        ELSE rdbLoadRecords(data, n + 1, dbs, r.dbid, nowms, master)
    ELSE IF ~isObjectType(r.op) THEN [ret |-> "exit", db |-> dbs]
    ELSE LET key == rdbGenericLoadStringObject(r.key)
             val == rdbLoadObject(r.op, r.val)
         IN IF rdbLoadSkipsKey(master, expiretime, nowms)
            THEN rdbLoadRecords(data, n + 1, dbs, dbid, nowms, master)
            ELSE LET added == dbAdd(dbs[dbid], key, val)
                     exp == IF expiretime # -1 THEN setExpire(added, key, expiretime)
                            ELSE added
                 IN rdbLoadRecords(data, n + 1, [dbs EXCEPT ![dbid] = exp],
                                   dbid, nowms, master)

\* rdbLoad(filename) on the file f into the databases dbs
rdbLoad(f, dbs, nowms, master) ==
    IF ~f.exists THEN [ret |-> REDIS_ERR, db |-> dbs]
    ELSE IF Len(f.data) = 0 THEN [ret |-> "exit", db |-> dbs]
    ELSE IF f.data[1].op # "REDIS" THEN [ret |-> REDIS_ERR, db |-> dbs]
    ELSE IF f.data[1].version < 1 \/ f.data[1].version > REDIS_RDB_VERSION
         THEN [ret |-> REDIS_ERR, db |-> dbs]
    ELSE rdbLoadRecords(f.data, 2, dbs, 0, nowms, master)

-----------------------------------------------------------------------------
(* Processes and files *)

\* getpid() of the server and of the child fork() creates
ParentPid == 1
ChildPid == 2
Pids == {ParentPid, ChildPid}

NoFile == [exists |-> FALSE, data |-> <<>>]
emptyFile == [exists |-> TRUE, data |-> <<>>]

NoSignal == "0"

\* a memory rio nothing was written to
idleCodec == [pc |-> "idle", len |-> <<>>, buf |-> <<>>, ret |-> <<>>, isencoded |-> 0]

\* a process that is not inside rdbSave()
idleSaver ==
    [pc |-> "idle", j |-> 0, todo |-> {}, now |-> 0, exitcode |-> 0,
     bysignal |-> NoSignal]

\* the positions inside rdbSave()
SavingPcs == {"open", "magic", "db", "key", "cksum", "flush", "rename"}

emptyDbs == [j \in DbIds |-> emptyDb]

initServer(masterhost) ==
    [dirty |-> 0, dirty_before_bgsave |-> 0, lastsave |-> now,
     lastbgsave_status |-> REDIS_OK, rdb_child_pid |-> -1,
     masterhost |-> masterhost]

Init ==
    /\ now = 0
    /\ db = emptyDbs
    /\ server = initServer(NULL)
    /\ fs = [target |-> NoFile, temp |-> [p \in Pids |-> NoFile]]
    /\ saver = [p \in Pids |-> idleSaver]
    /\ childdb = emptyDbs
    /\ reply = noReply
    /\ log = noLog
    /\ mbulk = <<>>
    /\ codec = idleCodec

\* a child that shared the server's memory would read the live dataset
serverDb_shared(p) == db

\* the dataset process p reads: the child reads its copy made by fork()
serverDb(p) == IF p = ParentPid THEN db ELSE childdb

\* the server reads the next command only between commands
ParentIdle == saver[ParentPid].pc = "idle"

-----------------------------------------------------------------------------
(* Client write commands *)

\* a command of the client whose database is j ends with result res
Executes(j, res) ==
    /\ db' = [db EXCEPT ![j] = res.d]
    /\ server' = [server EXCEPT !.dirty = @ + res.dirty]
    /\ reply' = res.reply
    /\ mbulk' = <<>>
    /\ UNCHANGED <<now, fs, saver, childdb, log, codec>>

Sadd ==
    /\ ParentIdle /\ server.dirty < MaxDirty
    /\ \E j \in ClientDbs, key \in Keys, m \in Members :
          Executes(j, saddCommand(db[j], key, <<m>>))

Srem ==
    /\ ParentIdle /\ server.dirty < MaxDirty
    /\ \E j \in ClientDbs, key \in Keys, m \in Members :
          Executes(j, sremCommand(db[j], key, <<m>>))

Expire ==
    /\ ParentIdle /\ server.dirty < MaxDirty
    /\ \E j \in ClientDbs, key \in Keys, when \in ExpireTimes :
          /\ when > now
          /\ Executes(j, expireCommand(db[j], key, when))

\* time passes
Tick ==
    /\ now < MaxTime
    /\ now' = now + 1
    /\ UNCHANGED <<db, server, fs, saver, childdb, reply, log, mbulk, codec>>

-----------------------------------------------------------------------------
(* rdbSave(filename), one step per group of writes.  Process p is the       *)
(* server inside SAVE or the child of BGSAVE.  Every write, flush, sync,    *)
(* close and rename can fail.                                               *)

server_dbnum == Cardinality(DbIds)

\* temp-<pid>.rdb of process p with recs appended
rioWrite(p, recs) == [fs EXCEPT !.temp[p].data = @ \o recs]

\* unlink(tmpfile)
unlinkTemp(p) == [fs EXCEPT !.temp[p] = NoFile]

\* rdbSave returns ret with the files newfs, having logged line.  In the
\* server the caller is saveCommand, which replies; in the child it is
\* rdbSaveBackground, which exits with status 0 or 1.  server.dirty,
\* lastsave and lastbgsave_status set on success are the process's own: the
\* child's copies die with it.
rdbSaveReturns(p, ret, newfs, line) ==
    /\ fs' = newfs
    /\ IF p = ParentPid
       THEN /\ saver' = [saver EXCEPT ![p] = idleSaver]
            /\ reply' = IF ret = REDIS_OK THEN shared_ok ELSE shared_err
            /\ log' = IF line = noLog THEN log ELSE line
            /\ server' = IF ret = REDIS_OK
                         THEN [server EXCEPT !.dirty = 0, !.lastsave = now,
                                             !.lastbgsave_status = REDIS_OK]
                         ELSE server
            /\ UNCHANGED childdb
       ELSE /\ saver' = [saver EXCEPT ![p] =
                           [idleSaver EXCEPT !.pc = "exited",
                                             !.exitcode = IF ret = REDIS_OK THEN 0 ELSE 1]]
            /\ childdb' = emptyDbs
            /\ UNCHANGED <<reply, server, log>>
    /\ UNCHANGED <<db, now, mbulk, codec>>

\* the label werr: fclose, unlink the temp file, return REDIS_ERR
werr(p) == rdbSaveReturns(p, REDIS_ERR, unlinkTemp(p), logWriteError)

\* rdbSave goes on at position pc with the locals loc and the files newfs
rdbSaveGoes(p, pc, loc, newfs) ==
    /\ fs' = newfs
    /\ saver' = [saver EXCEPT ![p] = [loc EXCEPT !.pc = pc]]
    /\ UNCHANGED <<db, server, now, childdb, reply, log, mbulk, codec>>

\* now = mstime(); fopen(tmpfile, "w")
rdbSaveOpen(p) ==
    /\ saver[p].pc = "open"
    /\ \E ok \in BOOLEAN :
          IF ok
          THEN rdbSaveGoes(p, "magic", [saver[p] EXCEPT !.now = now],
                           [fs EXCEPT !.temp[p] = emptyFile])
          ELSE rdbSaveReturns(p, REDIS_ERR, fs, logOpenFailed)

\* the magic "REDIS" and the version
rdbSaveMagic(p) ==
    /\ saver[p].pc = "magic"
    /\ \E ok \in BOOLEAN :
          IF ok
          THEN rdbSaveGoes(p, "db", [saver[p] EXCEPT !.j = 0],
                           rioWrite(p, <<[op |-> "REDIS", version |-> REDIS_RDB_VERSION]>>))
          ELSE werr(p)

\* the first database at or after j that is not empty, server.dbnum if none
nextDb(dbs, j) ==
    IF \E n \in DbIds : n >= j /\ dictSize(dbs[n].dict) # 0
    THEN CHOOSE n \in DbIds :
            /\ n >= j /\ dictSize(dbs[n].dict) # 0
            /\ \A m \in DbIds : (m >= j /\ dictSize(dbs[m].dict) # 0) => n <= m
    ELSE server_dbnum

\* the head of the loop over the databases: empty ones are skipped; for the
\* next one the iterator is made, then SELECTDB and the index are written;
\* after the last one the EOF opcode is written.  Without an iterator
\* rdbSave closes the file and returns REDIS_ERR at once.
rdbSaveDb(p) ==
    /\ saver[p].pc = "db"
    /\ LET j == nextDb(serverDb(p), saver[p].j) IN
       \E r \in {"ok", "noiter", "werr"} :
          IF j < server_dbnum
          THEN CASE r = "noiter" -> rdbSaveReturns(p, REDIS_ERR, fs, noLog)
                 [] r = "werr" -> werr(p)
                 [] r = "ok" ->
                      rdbSaveGoes(p, "key",
                          [saver[p] EXCEPT !.j = j, !.todo = DOMAIN serverDb(p)[j].dict],
                          rioWrite(p, <<[op |-> REDIS_RDB_OPCODE_SELECTDB, dbid |-> j]>>))
          ELSE IF r = "ok"
               THEN rdbSaveGoes(p, "cksum", [saver[p] EXCEPT !.j = j],
                                rioWrite(p, <<[op |-> REDIS_RDB_OPCODE_EOF]>>))
               ELSE werr(p)

\* one round of the loop over the keys of database j: dictNext yields some
\* entry of the dict not yet visited, its deadline is looked up and the pair
\* is written; when no entry is left the loop over the databases goes on
rdbSaveKey(p) ==
    /\ saver[p].pc = "key"
    /\ LET d == serverDb(p)[saver[p].j]
           left == saver[p].todo \cap DOMAIN d.dict
       IN IF left = {}
          THEN rdbSaveGoes(p, "db", [saver[p] EXCEPT !.todo = {}, !.j = @ + 1], fs)
          ELSE \E key \in left, ok \in BOOLEAN :
                 LET recs == rdbSaveKeyValuePair(key, d.dict[key], getExpire(d, key),
                                                 saver[p].now)
                     rest == left \ {key}
                 IN IF ok \/ recs = <<>>
                    THEN IF rest = {}
                         THEN rdbSaveGoes(p, "db",
                                  [saver[p] EXCEPT !.todo = {}, !.j = @ + 1],
                                  rioWrite(p, recs))
                         ELSE rdbSaveGoes(p, "key", [saver[p] EXCEPT !.todo = rest],
                                          rioWrite(p, recs))
                    ELSE werr(p)

\* the checksum trailer; the result of this rioWrite is not looked at
rdbSaveCksum(p) ==
    /\ saver[p].pc = "cksum"
    /\ \E ok \in BOOLEAN :
          rdbSaveGoes(p, "flush", saver[p],
              IF ok THEN rioWrite(p, <<[op |-> "CKSUM",
                                        cksum |-> rioChecksum(fs.temp[p].data)]>>)
              ELSE fs)

\* fflush, fsync, fclose
rdbSaveFlush(p) ==
    /\ saver[p].pc = "flush"
    /\ \E r \in {"ok", "fflush", "fsync", "fclose"} :
          IF r = "ok" THEN rdbSaveGoes(p, "rename", saver[p], fs)
          ELSE werr(p)

\* rename(tmpfile, filename)
rdbSaveRename(p) ==
    /\ saver[p].pc = "rename"
    /\ \E ok \in BOOLEAN :
          IF ok
          THEN rdbSaveReturns(p, REDIS_OK,
                              [target |-> fs.temp[p],
                               temp |-> [fs.temp EXCEPT ![p] = NoFile]],
                              logSaved)
          ELSE rdbSaveReturns(p, REDIS_ERR, unlinkTemp(p), logRenameFailed)

rdbSave(p) ==
    \/ rdbSaveOpen(p)
    \/ rdbSaveMagic(p)
    \/ rdbSaveDb(p)
    \/ rdbSaveKey(p)
    \/ rdbSaveCksum(p)
    \/ rdbSaveFlush(p)
    \/ rdbSaveRename(p)

-----------------------------------------------------------------------------
(* SAVE, BGSAVE and the end of a background save *)

\* a command that only replies
OnlyReplies(r) ==
    /\ reply' = r
    /\ mbulk' = <<>>
    /\ UNCHANGED <<db, server, now, fs, saver, childdb, log, codec>>

\* a SAVE that did not look at rdb_child_pid
saveCommand_unguarded ==
    /\ ParentIdle
    /\ saver' = [saver EXCEPT ![ParentPid].pc = "open"]
    /\ reply' = noReply
    /\ UNCHANGED <<db, server, now, fs, childdb, log, mbulk, codec>>

\* SAVE: refused during a background save, else rdbSave() runs in the server
saveCommand ==
    /\ ParentIdle
    /\ IF server.rdb_child_pid # -1
       THEN OnlyReplies(replyBgsaveInProgress)
       ELSE /\ saver' = [saver EXCEPT ![ParentPid].pc = "open"]
            /\ reply' = noReply
            /\ UNCHANGED <<db, server, now, fs, childdb, log, mbulk, codec>>

\* rdbSaveBackground(filename) with the outcome of fork(): the child starts
\* at the top of rdbSave() on a copy of the server's memory
rdbSaveBackground(forked) ==
    IF server.rdb_child_pid # -1 THEN OnlyReplies(shared_err)
    ELSE IF ~forked
    THEN /\ server' = [server EXCEPT !.dirty_before_bgsave = server.dirty,
                                     !.lastbgsave_status = REDIS_ERR]
         /\ reply' = shared_err
         /\ log' = logForkFailed
         /\ UNCHANGED <<db, now, fs, saver, childdb, mbulk, codec>>
    ELSE /\ server' = [server EXCEPT !.dirty_before_bgsave = server.dirty,
                                     !.rdb_child_pid = ChildPid]
         /\ saver' = [saver EXCEPT ![ChildPid] = [idleSaver EXCEPT !.pc = "open"]]
         /\ childdb' = db
         /\ reply' = replyBgsaveStarted
         /\ log' = logBgsaveStarted
         /\ UNCHANGED <<db, now, fs, mbulk, codec>>

\* BGSAVE; aof is whether an AOF rewrite child is running
bgsaveCommand ==
    /\ ParentIdle
    /\ \E aof \in BOOLEAN, forked \in BOOLEAN :
          IF server.rdb_child_pid # -1 THEN OnlyReplies(replyBgsaveInProgress)
          ELSE IF aof THEN OnlyReplies(replyAofInProgress)
          ELSE rdbSaveBackground(forked)

\* a signal ends the running child
killChild ==
    /\ saver[ChildPid].pc \in SavingPcs
    /\ \E sig \in Signals :
          saver' = [saver EXCEPT ![ChildPid] =
                       [idleSaver EXCEPT !.pc = "killed", !.bysignal = sig]]
    /\ childdb' = emptyDbs
    /\ UNCHANGED <<db, server, now, fs, reply, log, mbulk, codec>>

\* a removal that does nothing
rdbRemoveTempFile_noop(childpid) == fs

\* rdbRemoveTempFile(childpid)
rdbRemoveTempFile(childpid) == [fs EXCEPT !.temp[childpid] = NoFile]

\* a handler that clears the counter after a successful background save
doneHandlerServer_clearsDirty(exitcode, bysignal) ==
    IF bysignal = NoSignal /\ exitcode = 0
    THEN [server EXCEPT !.dirty = 0,
                        !.lastsave = now,
                        !.lastbgsave_status = REDIS_OK,
                        !.rdb_child_pid = -1]
    ELSE IF bysignal = NoSignal /\ exitcode # 0
    THEN [server EXCEPT !.lastbgsave_status = REDIS_ERR,
                        !.rdb_child_pid = -1]
    ELSE [server EXCEPT !.lastbgsave_status =
                            IF bysignal # SIGUSR1 THEN REDIS_ERR ELSE @,
                        !.rdb_child_pid = -1]

\* a handler that leaves the status alone when the child exits with an error
doneHandlerServer_keepsStatus(exitcode, bysignal) ==
    IF bysignal = NoSignal /\ exitcode = 0
    THEN [server EXCEPT !.dirty = server.dirty - server.dirty_before_bgsave,
                        !.lastsave = now,
                        !.lastbgsave_status = REDIS_OK,
                        !.rdb_child_pid = -1]
    ELSE IF bysignal = NoSignal /\ exitcode # 0
    THEN [server EXCEPT !.rdb_child_pid = -1]
    ELSE [server EXCEPT !.lastbgsave_status =
                            IF bysignal # SIGUSR1 THEN REDIS_ERR ELSE @,
                        !.rdb_child_pid = -1]

\* a handler that forgets the child when it was ended by a signal
doneHandlerServer_keepsPid(exitcode, bysignal) ==
    IF bysignal = NoSignal /\ exitcode = 0
    THEN [server EXCEPT !.dirty = server.dirty - server.dirty_before_bgsave,
                        !.lastsave = now,
                        !.lastbgsave_status = REDIS_OK,
                        !.rdb_child_pid = -1]
    ELSE IF bysignal = NoSignal /\ exitcode # 0
    THEN [server EXCEPT !.lastbgsave_status = REDIS_ERR,
                        !.rdb_child_pid = -1]
    ELSE [server EXCEPT !.lastbgsave_status =
                            IF bysignal # SIGUSR1 THEN REDIS_ERR ELSE @]

\* server after backgroundSaveDoneHandler(exitcode, bysignal)
doneHandlerServer(exitcode, bysignal) ==
    IF bysignal = NoSignal /\ exitcode = 0
    THEN [server EXCEPT !.dirty = server.dirty - server.dirty_before_bgsave,
                        !.lastsave = now,
                        !.lastbgsave_status = REDIS_OK,
                        !.rdb_child_pid = -1]
    ELSE IF bysignal = NoSignal /\ exitcode # 0
    THEN [server EXCEPT !.lastbgsave_status = REDIS_ERR,
                        !.rdb_child_pid = -1]
    ELSE [server EXCEPT !.lastbgsave_status =
                            IF bysignal # SIGUSR1 THEN REDIS_ERR ELSE @,
                        !.rdb_child_pid = -1]

\* a handler that renames the child's temp file over the target itself
doneHandlerFiles_renames(exitcode, bysignal) ==
    IF bysignal = NoSignal /\ exitcode = 0
    THEN [target |-> fs.temp[server.rdb_child_pid],
          temp |-> [fs.temp EXCEPT ![server.rdb_child_pid] = NoFile]]
    ELSE IF bysignal = NoSignal THEN fs
    ELSE [fs EXCEPT !.temp[server.rdb_child_pid] = NoFile]

\* the files after backgroundSaveDoneHandler(exitcode, bysignal)
doneHandlerFiles(exitcode, bysignal) ==
    IF bysignal = NoSignal THEN fs
    ELSE rdbRemoveTempFile(server.rdb_child_pid)

\* the line backgroundSaveDoneHandler(exitcode, bysignal) logs
doneHandlerLog(exitcode, bysignal) ==
    IF bysignal = NoSignal /\ exitcode = 0 THEN logBgsaveSuccess
    ELSE IF bysignal = NoSignal /\ exitcode # 0 THEN logBgsaveError
    ELSE logBgsaveSignal

\* the server has reaped the child: backgroundSaveDoneHandler(exitcode, bysignal)
backgroundSaveDoneHandler ==
    /\ ParentIdle
    /\ saver[ChildPid].pc \in {"exited", "killed"}
    /\ LET exitcode == saver[ChildPid].exitcode
           bysignal == saver[ChildPid].bysignal
       IN /\ server' = doneHandlerServer(exitcode, bysignal)
          /\ fs' = doneHandlerFiles(exitcode, bysignal)
          /\ log' = doneHandlerLog(exitcode, bysignal)
    /\ saver' = [saver EXCEPT ![ChildPid] = idleSaver]
    /\ UNCHANGED <<db, now, childdb, reply, mbulk, codec>>

-----
(* Start of the server: memory is fresh and the snapshot at the target path *)
(* is loaded.  rdbLoad ends the process when the file is cut short.          *)

replyLoaded(ret) == "rdbLoad " \o ret

Restart ==
    /\ saver[ParentPid].pc \in {"idle", "dead"}
    /\ saver[ChildPid].pc = "idle"
    /\ LET res == rdbLoad(fs.target, emptyDbs, now, server.masterhost) IN
       /\ db' = IF res.ret = REDIS_OK THEN res.db ELSE emptyDbs
       /\ saver' = [saver EXCEPT ![ParentPid].pc =
                       IF res.ret = "exit" THEN "dead" ELSE "idle"]
       /\ reply' = replyLoaded(res.ret)
    /\ server' = initServer(server.masterhost)
    /\ log' = noLog
    /\ mbulk' = <<>>
    /\ UNCHANGED <<now, fs, childdb, codec>>

-----------------------------------------------------------------------------
Next ==
    \/ Sadd
    \/ Srem
    \/ Expire
    \/ Tick
    \/ saveCommand
    \/ bgsaveCommand
    \/ \E p \in Pids : rdbSave(p)
    \/ killChild
    \/ backgroundSaveDoneHandler
    \/ Restart

Spec == Init /\ [][Next]_vars

\* The same program with its scheduling: the forked child is a process of
\* its own that the kernel keeps running, so rdbSave() in the child goes on
\* until it returns or a signal ends it; serverCron runs every 1000/hz ms
\* and calls wait3(), so a terminated child is reaped and
\* backgroundSaveDoneHandler runs.
SpecLive ==
    /\ Init
    /\ [][Next]_vars
    /\ WF_vars(rdbSave(ChildPid))
    /\ WF_vars(backgroundSaveDoneHandler)

-----------------------------------------------------------------------------
(* Save and reload.  The second specification starts from any of a bounded   *)
(* set of datasets, on a primary or on a replica, and lets the server save   *)
(* in the foreground and start again from the snapshot while time passes.    *)

\* the set SADD key argv[1] argv[2] ... builds
setOf(argv) == saddLoop(setTypeCreate(argv[1]), argv, 1, 0).o

\* the hash HSET key f v builds for pairs[from..] in turn, starting from o
RECURSIVE hashOf(_, _, _)
hashOf(o, pairs, from) ==
    IF from > Len(pairs) THEN o
    ELSE hashOf(hashTypeSet(hashTypeTryConversion(o, pairs[from]),
                            pairs[from][1], pairs[from][2]).o,
                pairs, from + 1)

\* values of both types in every encoding: an intset, a set turned into a
\* dict by its size, one turned by a member that is no integer, a dict left
\* with integers only, a ziplist hash, a hash turned into a dict by its
\* size, and a dict hash shrunk again
RTValues ==
    { setOf(<<"1", "2">>),
      setOf(<<"1", "2", "3">>),
      setOf(<<"07", "3">>),
      setTypeRemove(setOf(<<"x", "1">>), "x").o,
      hashOf(createHashObject, <<<<"f", "v">>, <<"g", "12">>>>, 1),
      hashOf(createHashObject, <<<<"f", "v">>, <<"g", "12">>, <<"h", "w">>>>, 1),
      hashTypeDelete(hashOf(createHashObject,
                            <<<<"f", "v">>, <<"g", "12">>, <<"h", "w">>>>, 1),
                     "h").o }

\* the key of the reload runs
RTKey == "a"

\* a database holding nothing, or RTKey with a value and perhaps a deadline
RTDatabases ==
    {emptyDb}
    \cup {dbAdd(emptyDb, RTKey, v) : v \in RTValues}
    \cup {setExpire(dbAdd(emptyDb, RTKey, v), RTKey, when) :
             v \in RTValues, when \in ExpireTimes}

\* the datasets the reload runs start from: database 1 holds any of these,
\* database 0 nothing, a set, or a hash with a deadline
RTFirst ==
    { emptyDb,
      dbAdd(emptyDb, RTKey, setOf(<<"1", "2">>)),
      setExpire(dbAdd(emptyDb, RTKey,
                      hashOf(createHashObject, <<<<"f", "v">>, <<"g", "12">>>>, 1)),
                RTKey, 1) }
RTDatasets == {d \in [DbIds -> RTDatabases] : d[0] \in RTFirst}

\* server.masterhost of a replica
Masters == {NULL, "10.0.0.1"}

InitRT ==
    /\ now = 0
    /\ db \in RTDatasets
    /\ \E masterhost \in Masters : server = initServer(masterhost)
    /\ fs = [target |-> NoFile, temp |-> [p \in Pids |-> NoFile]]
    /\ saver = [p \in Pids |-> idleSaver]
    /\ childdb = emptyDbs
    /\ reply = noReply
    /\ log = noLog
    /\ mbulk = <<>>
    /\ codec = idleCodec

NextRT ==
    \/ Tick
    \/ saveCommand
    \/ rdbSave(ParentPid)
    \/ Restart

SpecRT == InitRT /\ [][NextRT]_vars

-----------------------------------------------------------------------------
(* The length codec on its own.  The third specification writes a length     *)
(* with rdbSaveLen to a memory rio and reads it back with rdbLoadLen, from   *)
(* the whole of what was written or from a rio cut short.                   *)

\* the bytes lengths are made of
LenBytes == {0, 1, 63, 64, 128, 255}
\* the lengths written: every uint32_t of these bytes
LenInputs == [1..4 -> LenBytes]

InitLen ==
    /\ now = 0
    /\ db = emptyDbs
    /\ server = initServer(NULL)
    /\ fs = [target |-> NoFile, temp |-> [p \in Pids |-> NoFile]]
    /\ saver = [p \in Pids |-> idleSaver]
    /\ childdb = emptyDbs
    /\ reply = noReply
    /\ log = noLog
    /\ mbulk = <<>>
    /\ \E len \in LenInputs : codec = [idleCodec EXCEPT !.len = len]

\* rdbSaveLen(rdb, len)
SaveLen ==
    /\ codec.pc = "idle"
    /\ codec' = [codec EXCEPT !.pc = "saved", !.buf = rdbSaveLen(codec.len)]
    /\ UNCHANGED <<db, server, now, fs, saver, childdb, reply, log, mbulk>>

\* rdbLoadLen(rdb, &isencoded) with avail bytes of the rio left to read
LoadLen ==
    /\ codec.pc = "saved"
    /\ \E avail \in 0..Len(codec.buf) :
          LET r == rdbLoadLen(SubSeq(codec.buf, 1, avail))
          IN codec' = [codec EXCEPT !.pc = IF avail = Len(codec.buf)
                                           THEN "loaded" ELSE "cut",
                                    !.ret = r.ret, !.isencoded = r.isencoded]
    /\ UNCHANGED <<db, server, now, fs, saver, childdb, reply, log, mbulk>>

NextLen ==
    \/ SaveLen
    \/ LoadLen

SpecLen == InitLen /\ [][NextLen]_vars

-----------------------------------------------------------------------------
(* The type layer.  The fourth specification starts from any of a bounded    *)
(* set of datasets that the server has just saved, and lets a client on      *)
(* database 1 run the set and hash commands while time passes and the        *)
(* server starts again from the snapshot.                                    *)

\* the keys of d[from..] written in turn by rdbSaveKeyValuePair
RECURSIVE rdbSaveKeys(_, _, _, _)
rdbSaveKeys(d, keys, from, nowms) ==
    IF from > Len(keys) THEN <<>>
    ELSE rdbSaveKeyValuePair(keys[from], d.dict[keys[from]],
                             getExpire(d, keys[from]), nowms)
         \o rdbSaveKeys(d, keys, from + 1, nowms)

\* the loop of rdbSave over the databases from j on, none of its writes failing
RECURSIVE rdbSaveDbs(_, _, _)
rdbSaveDbs(dbs, j, nowms) ==
    IF j >= server_dbnum THEN <<>>
    ELSE (IF dictSize(dbs[j].dict) = 0 THEN <<>>
          ELSE <<[op |-> REDIS_RDB_OPCODE_SELECTDB, dbid |-> j]>>
               \o rdbSaveKeys(dbs[j], dictIterate(DOMAIN dbs[j].dict), 1, nowms))
         \o rdbSaveDbs(dbs, j + 1, nowms)

\* the file a rdbSave that meets no error leaves at the target path
rdbSaveFile(dbs, nowms) ==
    LET body == <<[op |-> "REDIS", version |-> REDIS_RDB_VERSION]>>
                \o rdbSaveDbs(dbs, 0, nowms)
                \o <<[op |-> REDIS_RDB_OPCODE_EOF]>>
    IN [exists |-> TRUE,
        data |-> body \o <<[op |-> "CKSUM", cksum |-> rioChecksum(body)]>>]

\* a string of hash_max_ziplist_value bytes and one of a byte more
Bytes64 == "vvvvvvvvvvvvvvvvvvvvvvvvvvvvvvvvvvvvvvvvvvvvvvvvvvvvvvvvvvvvvvvv"
Bytes65 == "vvvvvvvvvvvvvvvvvvvvvvvvvvvvvvvvvvvvvvvvvvvvvvvvvvvvvvvvvvvvvvvvv"

\* the keys the client of the type layer names; TNoKey is never written
TKeys == {"a", "b"}
TNoKey == "c"
\* the key of the hash commands and of SRANDMEMBER
TKey == "a"

\* a database with the value va at "a", and one with vb at "b" as well
dbOfA(va) == dbAdd(emptyDb, "a", va)
dbOf(va, vb) == dbAdd(dbOfA(va), "b", vb)

\* the sets and hashes the datasets are made of
TS1 == setOf(<<"1">>)
TS12 == setOf(<<"1", "2">>)
TS1234 == setOf(<<"1", "2", "3", "4">>)
TSx1 == setOf(<<"x", "1">>)
TS1ht == setTypeRemove(setOf(<<"x", "1">>), "x").o
TH1 == hashOf(createHashObject, <<<<"f", "1">>>>, 1)
TH2 == hashOf(createHashObject, <<<<"f", "1">>, <<"g", "v">>>>, 1)
TH3 == hashOf(createHashObject, <<<<"f", "1">>, <<"g", "v">>, <<"h", "w">>>>, 1)
TH3less == hashTypeDelete(TH3, "h").o

\* database 1 of the datasets the type layer starts from
TDatabases ==
    { emptyDb,
      dbOfA(TS12),
      dbOf(TS12, TS1),
      dbOf(TS1234, TS1),
      dbOf(TS1234, TS1234),
      dbOf(TSx1, TS12),
      dbOf(TS1ht, TS12),
      dbOfA(TH1),
      dbOf(TH2, TS12),
      dbOfA(TH3),
      dbOf(TH3less, TH1),
      setExpire(dbOf(TS12, TS12), "a", 1),
      setExpire(dbOf(TH2, TS1), "a", 1),
      setExpire(dbOf(TS1234, TS1), "b", 1) }

InitT ==
    /\ now = 0
    /\ \E d \in TDatabases : db = [emptyDbs EXCEPT ![1] = d]
    /\ server = initServer(NULL)
    /\ fs = [target |-> rdbSaveFile(db, now), temp |-> [p \in Pids |-> NoFile]]
    /\ saver = [p \in Pids |-> idleSaver]
    /\ childdb = emptyDbs
    /\ reply = noReply
    /\ log = noLog
    /\ mbulk = <<>>
    /\ codec = idleCodec

\* a command of the client whose database is j ends with result res, whose
\* reply is followed by the bulk strings res.mbulk
ExecutesBulk(j, res) ==
    /\ db' = [db EXCEPT ![j] = res.d]
    /\ server' = [server EXCEPT !.dirty = @ + res.dirty]
    /\ reply' = res.reply
    /\ mbulk' = res.mbulk
    /\ UNCHANGED <<now, fs, saver, childdb, log, codec>>

\* the server takes the next command of a client
Accepts == ParentIdle /\ server.dirty < MaxDirty

(* Arguments of the commands *)
TAdds == {<<"1">>, <<"3">>, <<"x">>}
TRems == {<<"1">>, <<"x">>, <<"1", "2">>}
TMoves == {"1", "x"}
TKeyLists == {<<"a">>, <<"a", "b">>, <<"b", "a">>, <<"a", "a">>}
TDiffLists == TKeyLists \cup {<<"a", "b", "b", "b">>, <<"a", TNoKey, "b">>}
TDsts == {"b"}
TCounts == {"0", "1", "2", "4", "5", "-2", "4294967296", "4294967297"}
TFields == {"f", "h"}
TValues == {"1", Bytes64, Bytes65}
THmsets == {<<"f", "1", "g", "2", "h", "3">>, <<"f", Bytes65>>}
TIncrFields == {"f", Bytes65}
TIncrs == {"1"}
THdels == {<<"f">>, <<"h">>, <<"f", "g", "h">>}

SADD ==
    /\ Accepts
    /\ \E key \in TKeys, argv \in TAdds :
          Executes(1, saddCommand(db[1], key, argv))

SREM ==
    /\ Accepts
    /\ \E key \in TKeys, argv \in TRems :
          Executes(1, sremCommand(db[1], key, argv))

\* SPOP key: the member popped is any setTypeRandomElement can yield
SPOP ==
    /\ Accepts
    /\ \E key \in TKeys :
          LET lk == lookupKeyWrite(db[1], key)
              eles == IF lk.found /\ lk.d.dict[key].type = REDIS_SET
                      THEN setTypeRandomElements(lk.d.dict[key]) ELSE {NULL}
          IN \E ele \in eles : ExecutesBulk(1, spopCommand(db[1], key, ele))

SMOVE ==
    /\ Accepts
    /\ \E src \in TKeys, dst \in TKeys, ele \in TMoves :
          Executes(1, smoveCommand(db[1], src, dst, ele))

SISMEMBER ==
    /\ Accepts
    /\ \E key \in TKeys, ele \in TMoves :
          Executes(1, sismemberCommand(db[1], key, ele))

SINTER ==
    /\ Accepts
    /\ \E setkeys \in TKeyLists :
          \E first \in sinterFirsts(lookupSets(db[1], setkeys, 1, FALSE), setkeys) :
             ExecutesBulk(1, sinterGenericCommand(db[1], setkeys, NULL, first))

SINTERSTORE ==
    /\ Accepts
    /\ \E dstkey \in TDsts, setkeys \in TKeyLists :
          \E first \in sinterFirsts(lookupSets(db[1], setkeys, 1, TRUE), setkeys) :
             ExecutesBulk(1, sinterGenericCommand(db[1], setkeys, dstkey, first))

SUNION ==
    /\ Accepts
    /\ \E setkeys \in TKeyLists :
          ExecutesBulk(1, sunionDiffGenericCommand(db[1], setkeys, NULL, REDIS_OP_UNION))

SUNIONSTORE ==
    /\ Accepts
    /\ \E dstkey \in TDsts, setkeys \in TKeyLists :
          ExecutesBulk(1, sunionDiffGenericCommand(db[1], setkeys, dstkey,
                                                   REDIS_OP_UNION))

SDIFF ==
    /\ Accepts
    /\ \E setkeys \in TDiffLists :
          ExecutesBulk(1, sunionDiffGenericCommand(db[1], setkeys, NULL, REDIS_OP_DIFF))

SDIFFSTORE ==
    /\ Accepts
    /\ \E dstkey \in TDsts, setkeys \in TDiffLists :
          ExecutesBulk(1, sunionDiffGenericCommand(db[1], setkeys, dstkey,
                                                   REDIS_OP_DIFF))

SRANDMEMBER ==
    /\ Accepts
    /\ \E key \in {TKey}, arg \in TCounts :
          \E picks \in srandmemberPicks(db[1], key, arg) :
             ExecutesBulk(1, srandmemberWithCountCommand(db[1], key, arg, picks))

HSET ==
    /\ Accepts
    /\ \E key \in {TKey}, field \in TFields, value \in TValues :
          Executes(1, hsetCommand(db[1], key, field, value))

HSETNX ==
    /\ Accepts
    /\ \E key \in {TKey}, field \in TFields, value \in TValues :
          Executes(1, hsetnxCommand(db[1], key, field, value))

HMSET ==
    /\ Accepts
    /\ \E key \in {TKey}, argv \in THmsets :
          Executes(1, hmsetCommand(db[1], key, argv))

\* the sum HINCRBY and HINCRBYFLOAT compute stays among the integers whose
\* text is tabulated
IncrInRange(d, key, field, incr) ==
    LET lk == lookupKeyWrite(d, key)
        current == IF lk.found /\ lk.d.dict[key].type = REDIS_HASH
                   THEN hashTypeGetObject(lk.d.dict[key], field) ELSE NULL
    IN (current # NULL /\ isObjectRepresentableAsLongLong(current))
       => (string2ll(current) + string2ll(incr)) \in LLRange

HINCRBY ==
    /\ Accepts
    /\ \E key \in {TKey}, field \in TIncrFields, incr \in TIncrs :
          /\ IncrInRange(db[1], key, field, incr)
          /\ Executes(1, hincrbyCommand(db[1], key, field, incr))

HINCRBYFLOAT ==
    /\ Accepts
    /\ \E key \in {TKey}, field \in TIncrFields, incr \in TIncrs :
          /\ IncrInRange(db[1], key, field, incr)
          /\ ExecutesBulk(1, hincrbyfloatCommand(db[1], key, field, incr))

HDEL ==
    /\ Accepts
    /\ \E key \in {TKey}, argv \in THdels :
          Executes(1, hdelCommand(db[1], key, argv))

PEXPIREAT ==
    /\ Accepts
    /\ \E key \in TKeys, when \in ExpireTimes :
          /\ when > now
          /\ Executes(1, expireCommand(db[1], key, when))

NextT ==
    \/ SADD
    \/ SREM
    \/ SPOP
    \/ SMOVE
    \/ SISMEMBER
    \/ SINTER
    \/ SINTERSTORE
    \/ SUNION
    \/ SUNIONSTORE
    \/ SDIFF
    \/ SDIFFSTORE
    \/ SRANDMEMBER
    \/ HSET
    \/ HSETNX
    \/ HMSET
    \/ HINCRBY
    \/ HINCRBYFLOAT
    \/ HDEL
    \/ PEXPIREAT
    \/ Tick
    \/ Restart

SpecT == InitT /\ [][NextT]_vars

-----------------------------------------------------------------------------
(* The loader of one value, an element at a time.  The fifth specification   *)
(* runs rdbLoadObject over a natural-form payload of a set, a hash or a      *)
(* sorted set: the object is created, every element is added, and the pass   *)
(* after the last element is made.                                           *)

REDIS_ZSET == "zset"
REDIS_ENCODING_SKIPLIST == "skiplist"
REDIS_RDB_TYPE_ZSET == "TYPE_ZSET"
server_zset_max_ziplist_entries == 2
server_zset_max_ziplist_value == 64

\* a sorted set is created as a skip list with its dict of element -> score
createZsetObject ==
    [type |-> REDIS_ZSET, encoding |-> REDIS_ENCODING_SKIPLIST,
     intset |-> {}, ziplist |-> <<>>, dict |-> emptyDict]

zsetLength(o) ==
    IF o.encoding = REDIS_ENCODING_ZIPLIST THEN Len(o.ziplist)
    ELSE dictSize(o.dict)

\* the <<element, score>> pairs of a dict in the order of the skip list
RECURSIVE zslIterate(_)
zslIterate(d) ==
    IF DOMAIN d = {} THEN <<>>
    ELSE LET e == CHOOSE e \in DOMAIN d : \A x \in DOMAIN d : d[e] <= d[x]
         IN <<<<e, d[e]>>>> \o zslIterate(dictDelete(d, e))

\* zsetConvert(zobj, encoding): a skip list becomes a ziplist of its pairs
\* in order, a ziplist becomes a skip list
zsetConvert(zobj, encoding) ==
    IF zobj.encoding = encoding THEN zobj
    ELSE IF encoding = REDIS_ENCODING_ZIPLIST
    THEN [zobj EXCEPT !.encoding = REDIS_ENCODING_ZIPLIST,
                      !.ziplist = zslIterate(zobj.dict),
                      !.dict = emptyDict]
    ELSE [zobj EXCEPT !.encoding = REDIS_ENCODING_SKIPLIST,
                      !.ziplist = <<>>,
                      !.dict = [e \in {zobj.ziplist[i][1] : i \in 1..Len(zobj.ziplist)} |->
                                  LET i == CHOOSE i \in 1..Len(zobj.ziplist) :
                                               zobj.ziplist[i][1] = e
                                  IN zobj.ziplist[i][2]]]

\* loading a natural-form sorted set: elems[from..] are inserted into the
\* skip list and its dict
RECURSIVE rdbLoadZsetElems(_, _, _)
rdbLoadZsetElems(o, elems, from) ==
    IF from > Len(elems) THEN o
    ELSE rdbLoadZsetElems(
             [o EXCEPT !.dict = dictAdd(@, rdbGenericLoadStringObject(elems[from][1]),
                                        elems[from][2])],
             elems, from + 1)

\* maxelelen after the element e: integer-encoded strings are not counted
rdbLoadZsetMaxelelen(maxelelen, e) ==
    LET ele == rdbGenericLoadStringObject(e[1]) IN
    IF ~isEncodingInt(ele) /\ sdslen(ele) > maxelelen THEN sdslen(ele)
    ELSE maxelelen

\* the object rdbLoadObject creates for a payload of len elements
rdbLoadObjectCreated(rdbtype, len) ==
    IF rdbtype = REDIS_RDB_TYPE_SET
    THEN IF len > server_set_max_intset_entries
         THEN createSetObject ELSE createIntsetObject
    ELSE IF rdbtype = REDIS_RDB_TYPE_HASH
    THEN IF len > server_hash_max_ziplist_entries
         THEN hashTypeConvert(createHashObject, REDIS_ENCODING_HT)
         ELSE createHashObject
    ELSE createZsetObject

\* the object after the element e is read and added
rdbLoadObjectAdded(rdbtype, o, e) ==
    IF rdbtype = REDIS_RDB_TYPE_SET THEN rdbLoadSetElems(o, <<e>>, 1)
    ELSE IF rdbtype = REDIS_RDB_TYPE_HASH THEN rdbLoadHashElems(o, <<e>>, 1)
    ELSE rdbLoadZsetElems(o, <<e>>, 1)

\* the pass after the last element: a sorted set that is small enough is
\* converted to a ziplist
rdbLoadObjectFinished(rdbtype, o, maxelelen) ==
    IF rdbtype = REDIS_RDB_TYPE_ZSET
       /\ zsetLength(o) <= server_zset_max_ziplist_entries
       /\ maxelelen <= server_zset_max_ziplist_value
    THEN zsetConvert(o, REDIS_ENCODING_ZIPLIST)
    ELSE o

\* the strings of the payloads, as the string writer stores them
ObjStrings == {rdbSaveStringObject(s) : s \in {"1", "2", "x", Bytes65}}
\* the longest payload
MaxElems == 3

\* the element lists of the payloads: distinct members or fields
ObjElems(rdbtype) ==
    LET Width == IF rdbtype = REDIS_RDB_TYPE_SET THEN 1 ELSE 2
        Second == IF rdbtype = REDIS_RDB_TYPE_HASH
                  THEN {rdbSaveStringObject("v"), rdbSaveStringObject(Bytes65)}
                  ELSE {1}
        Elem == IF Width = 1 THEN {<<s>> : s \in ObjStrings}
                ELSE {<<s, v>> : s \in ObjStrings, v \in Second}
    IN UNION {{seq \in [1..n -> Elem] :
                  \A i, j \in 1..n : seq[i][1] = seq[j][1] => i = j} : n \in 0..MaxElems}

ObjTypes == {REDIS_RDB_TYPE_SET, REDIS_RDB_TYPE_HASH, REDIS_RDB_TYPE_ZSET}

InitObj ==
    /\ now = 0
    /\ db = emptyDbs
    /\ server = initServer(NULL)
    /\ fs = [target |-> NoFile, temp |-> [p \in Pids |-> NoFile]]
    /\ saver = [p \in Pids |-> idleSaver]
    /\ childdb = emptyDbs
    /\ reply = noReply
    /\ log = noLog
    /\ mbulk = <<>>
    /\ \E rdbtype \in ObjTypes : \E elems \in ObjElems(rdbtype) :
          codec = [pc |-> "type", rdbtype |-> rdbtype, elems |-> elems,
                   i |-> 0, maxelelen |-> 0, o |-> createIntsetObject]

\* the length is read and the object created
rdbLoadObjectCreate ==
    /\ codec.pc = "type"
    /\ codec' = [codec EXCEPT !.pc = "elems", !.i = 1,
                              !.o = rdbLoadObjectCreated(codec.rdbtype, Len(codec.elems))]
    /\ UNCHANGED <<db, server, now, fs, saver, childdb, reply, log, mbulk>>

\* one round of the loop over the elements
rdbLoadObjectElement ==
    /\ codec.pc = "elems"
    /\ codec.i <= Len(codec.elems)
    /\ codec' = [codec EXCEPT
                    !.i = @ + 1,
                    !.maxelelen = IF codec.rdbtype = REDIS_RDB_TYPE_ZSET
                                  THEN rdbLoadZsetMaxelelen(@, codec.elems[codec.i])
                                  ELSE @,
                    !.o = rdbLoadObjectAdded(codec.rdbtype, @, codec.elems[codec.i])]
    /\ UNCHANGED <<db, server, now, fs, saver, childdb, reply, log, mbulk>>

\* what rdbLoadObject does after the last element, and its return
rdbLoadObjectEnd ==
    /\ codec.pc = "elems"
    /\ codec.i > Len(codec.elems)
    /\ codec' = [codec EXCEPT
                    !.pc = "done",
                    !.o = rdbLoadObjectFinished(codec.rdbtype, @, codec.maxelelen)]
    /\ UNCHANGED <<db, server, now, fs, saver, childdb, reply, log, mbulk>>

NextObj ==
    \/ rdbLoadObjectCreate
    \/ rdbLoadObjectElement
    \/ rdbLoadObjectEnd

SpecObj == InitObj /\ [][NextObj]_vars

-----------------------------------------------------------------------------
(* The logical content of datasets and of snapshot files, in which the      *)
(* properties below are stated                                              *)

\* what a value holds, whatever its encoding: the members of a set as
\* strings, the field-value pairs of a hash
logicalValue(o) ==
    IF o.type = REDIS_SET
    THEN [type |-> REDIS_SET,
          members |-> IF o.encoding = REDIS_ENCODING_HT THEN DOMAIN o.dict
                      ELSE {ll2string(i) : i \in o.intset},
          pairs |-> {}]
    ELSE [type |-> REDIS_HASH,
          members |-> {},
          pairs |-> IF o.encoding = REDIS_ENCODING_HT
                    THEN {<<f, o.dict[f]>> : f \in DOMAIN o.dict}
                    ELSE {o.ziplist[i] : i \in 1..Len(o.ziplist)}]

\* the keys of the databases dbs, each with its database, content and
\* deadline (-1 for none)
datasetEntries(dbs) ==
    UNION {{[db |-> j, key |-> k, val |-> logicalValue(dbs[j].dict[k]),
             expire |-> getExpire(dbs[j], k)] : k \in DOMAIN dbs[j].dict} :
           j \in DOMAIN dbs}

\* the keys a snapshot file records from data[i] on, dbid being selected
RECURSIVE snapshotEntriesFrom(_, _, _)
snapshotEntriesFrom(data, i, dbid) ==
    IF i > Len(data) THEN {}
    ELSE LET r == data[i] IN
         IF r.op = REDIS_RDB_OPCODE_SELECTDB
         THEN snapshotEntriesFrom(data, i + 1, r.dbid)
         ELSE IF r.op = REDIS_RDB_OPCODE_EXPIRETIME_MS
         THEN IF i + 1 <= Len(data) /\ isObjectType(data[i + 1].op)
              THEN {[db |-> dbid,
                     key |-> rdbGenericLoadStringObject(data[i + 1].key),
                     val |-> logicalValue(rdbLoadObject(data[i + 1].op, data[i + 1].val)),
                     expire |-> r.t]}
                   \cup snapshotEntriesFrom(data, i + 2, dbid)
              ELSE snapshotEntriesFrom(data, i + 1, dbid)
         ELSE IF isObjectType(r.op)
         THEN {[db |-> dbid,
                key |-> rdbGenericLoadStringObject(r.key),
                val |-> logicalValue(rdbLoadObject(r.op, r.val)),
                expire |-> -1]}
              \cup snapshotEntriesFrom(data, i + 1, dbid)
         ELSE snapshotEntriesFrom(data, i + 1, dbid)

snapshotEntries(f) == snapshotEntriesFrom(f.data, 1, 0)

\* a snapshot file the loader reads to its end
CompleteSnapshot(f) == rdbLoad(f, emptyDbs, 0, NULL).ret = REDIS_OK

\* the step in which the background-save child renames its temp file over
\* the target and exits with status 0
ChildRenames ==
    /\ saver[ChildPid].pc = "rename"
    /\ saver'[ChildPid].pc = "exited"
    /\ saver'[ChildPid].exitcode = 0

\* the keys of dbs whose deadline had not passed at time t
liveEntries(dbs, t) == {e \in datasetEntries(dbs) : e.expire = -1 \/ e.expire >= t}

-----------------------------------------------------------------------------
(* Properties *)

\* C1 as stated: the file a background save produces holds exactly the keys,
\* values and deadlines the dataset had at the fork.
C1_ExactlyForkTime ==
    [][ChildRenames => snapshotEntries(fs'.target) = datasetEntries(childdb)]_vars

\* C1: the file a background save produces holds exactly the keys, values
\* and deadlines the dataset had at the fork, without the keys whose
\* deadline had passed when the child began to write, and nothing of what
\* the server's commands changed after the fork.
C1_ForkTimeSnapshot ==
    [][ChildRenames =>
          snapshotEntries(fs'.target) = liveEntries(childdb, saver[ChildPid].now)]_vars

\* a background save has produced its file while commands changed the
\* dataset after the fork
C1_Witness ==
    /\ saver[ChildPid].pc = "exited"
    /\ saver[ChildPid].exitcode = 0
    /\ server.dirty > server.dirty_before_bgsave
    /\ snapshotEntries(fs.target) # {}
    /\ snapshotEntries(fs.target) # datasetEntries(db)

\* C2 as stated: whenever a file is at the target path it is a complete
\* snapshot, the previous one or the new one, at every point of every save
\* and after every failure.
C2_TargetComplete == fs.target.exists => CompleteSnapshot(fs.target)

\* the steps in which a SAVE or a BGSAVE command is executed
SaveOrBgsave == saveCommand \/ bgsaveCommand

\* C3: while a background-save child is active SAVE and BGSAVE are answered
\* with an error and change nothing but the reply, and never are two
\* processes inside rdbSave.
C3_OneWriter ==
    /\ [](Cardinality({p \in Pids : saver[p].pc \in SavingPcs}) <= 1)
    /\ [][(server.rdb_child_pid # -1 /\ SaveOrBgsave) =>
             (/\ reply' = replyBgsaveInProgress
              /\ UNCHANGED <<db, server, now, fs, saver, childdb, log>>)]_vars

\* SAVE or BGSAVE has been refused while the child was writing
C3_Witness ==
    /\ server.rdb_child_pid # -1
    /\ saver[ChildPid].pc \in SavingPcs
    /\ reply = replyBgsaveInProgress

\* the steps that end a successful save: rdbSave returns REDIS_OK in the
\* server, or the server handles a child that exited with status 0
FgSaveSucceeds ==
    /\ saver[ParentPid].pc \in SavingPcs
    /\ saver'[ParentPid].pc = "idle"
    /\ reply' = shared_ok
BgSaveSucceeds ==
    /\ saver[ChildPid].pc = "exited"
    /\ saver[ChildPid].exitcode = 0
    /\ saver'[ChildPid].pc = "idle"
\* the step that forks the child
Forks == server.rdb_child_pid = -1 /\ server'.rdb_child_pid # -1
\* the server process is replaced by a fresh one
Restarts == saver[ChildPid].pc = "idle" /\ Restart

\* C4: server.dirty is never negative, decreases only when a save
\* succeeds, equals dirty_before_bgsave at the fork, and when a background
\* save succeeds becomes its value minus dirty_before_bgsave, which is what
\* the commands after the fork added.
C4_DirtyCounter ==
    /\ [](server.dirty >= 0)
    /\ [](server.rdb_child_pid # -1 => server.dirty >= server.dirty_before_bgsave)
    /\ [][/\ (server'.dirty < server.dirty) =>
               (FgSaveSucceeds \/ BgSaveSucceeds \/ Restarts)
          /\ Forks => (/\ server'.dirty_before_bgsave = server.dirty
                       /\ server'.dirty = server.dirty)
          /\ (server.rdb_child_pid # -1 /\ server'.rdb_child_pid # -1) =>
               (server'.dirty_before_bgsave = server.dirty_before_bgsave)
          /\ BgSaveSucceeds =>
               (server'.dirty = server.dirty - server.dirty_before_bgsave)]_vars

\* a background save has succeeded and the counter keeps the one change
\* made after the fork, of two made since the save before
C4_Witness ==
    /\ log = logBgsaveSuccess
    /\ server.rdb_child_pid = -1
    /\ server.dirty_before_bgsave = 1
    /\ server.dirty = 1
    /\ reply = shared_cone
    /\ server.lastbgsave_status = REDIS_OK

\* C5 as stated: during a background save the target changes only in the
\* step in which the server handles the child's termination.
C5_RenamedByParent ==
    [][(server.rdb_child_pid # -1 /\ fs'.target # fs.target) =>
          server'.rdb_child_pid = -1]_vars

\* C5: during a background save the target changes only in the step in
\* which the child renames its temp file over it, before it exits; the
\* server's handling of the termination leaves the files alone after a
\* successful exit.
C5_RenamedByChild ==
    [][/\ (server.rdb_child_pid # -1 /\ fs'.target # fs.target) =>
             (ChildRenames /\ fs'.target = fs.temp[ChildPid])
       /\ BgSaveSucceeds => (fs' = fs)]_vars

\* the child has renamed its file over the target and exited; the server
\* has not handled the termination yet
C5_Witness ==
    /\ saver[ChildPid].pc = "exited"
    /\ saver[ChildPid].exitcode = 0
    /\ server.rdb_child_pid = ChildPid
    /\ fs.target.exists
    /\ ~fs.temp[ChildPid].exists
    /\ log = logBgsaveStarted

\* the step in which rdbSave, having created its temp file, returns in
\* process p
RdbSaveEnds(p) ==
    /\ saver[p].pc \in SavingPcs \ {"open"}
    /\ saver'[p].pc \in {"idle", "exited"}
\* what the caller is told: the reply to SAVE, the child's exit status
ReportsFailure(p) ==
    IF p = ParentPid THEN reply' = shared_err ELSE saver'[p].exitcode # 0

\* C6 as stated: a save that ends after its temp file was created either
\* has installed a complete snapshot, or has removed its temp file, told
\* its caller of the failure and left the target and server.dirty as they
\* were.
C6_FailureCleansUp ==
    [][\A p \in Pids :
          RdbSaveEnds(p) =>
             \/ /\ ~ReportsFailure(p)
                /\ fs'.target = fs.temp[p]
                /\ CompleteSnapshot(fs'.target)
             \/ /\ ReportsFailure(p)
                /\ ~fs'.temp[p].exists
                /\ fs'.target = fs.target
                /\ server'.dirty = server.dirty]_vars

\* the step in which the server handles a child ended by a signal
SignalHandled ==
    /\ saver[ChildPid].pc = "killed"
    /\ saver'[ChildPid].pc = "idle"

\* C7: when the server handles a child ended by a signal, the child's temp
\* file is gone afterwards, the target, server.dirty and server.lastsave
\* are as before, and the status is failed, or as before after SIGUSR1.
C7_KilledChild ==
    [][SignalHandled =>
          /\ ~fs'.temp[ChildPid].exists
          /\ fs'.target = fs.target
          /\ server'.dirty = server.dirty
          /\ server'.lastsave = server.lastsave
          /\ server'.lastbgsave_status =
                IF saver[ChildPid].bysignal = SIGUSR1
                THEN server.lastbgsave_status ELSE REDIS_ERR
          /\ server'.rdb_child_pid = -1]_vars

\* a child that had written part of its temp file was ended by a signal
\* other than SIGUSR1 and the server has handled it
C7_Witness ==
    /\ log = logBgsaveSignal
    /\ server.lastbgsave_status = REDIS_ERR
    /\ server.rdb_child_pid = -1
    /\ saver[ChildPid].pc = "idle"
    /\ ~fs.temp[ChildPid].exists
    /\ server.dirty > 0

\* the steps that end a failed save attempt
FgSaveFails ==
    /\ saver[ParentPid].pc \in SavingPcs
    /\ saver'[ParentPid].pc = "idle"
    /\ reply' = shared_err
ForkFails ==
    /\ server.rdb_child_pid = -1
    /\ bgsaveCommand
    /\ reply' = shared_err
ChildFailureHandled ==
    /\ saver[ChildPid].pc = "exited"
    /\ saver[ChildPid].exitcode # 0
    /\ saver'[ChildPid].pc = "idle"
ChildKillHandled ==
    /\ SignalHandled
    /\ saver[ChildPid].bysignal # SIGUSR1

\* C8 as stated: after every failed save attempt the status is failed,
\* after every successful one it is ok.
C8_StatusOfLastAttempt ==
    [][/\ (FgSaveFails \/ ForkFails \/ ChildFailureHandled \/ ChildKillHandled) =>
             (server'.lastbgsave_status = REDIS_ERR)
       /\ (FgSaveSucceeds \/ BgSaveSucceeds) =>
             (server'.lastbgsave_status = REDIS_OK)]_vars

\* C8: the status is failed after a failed fork, after a child that exited
\* with an error and after a child ended by a signal other than SIGUSR1; it
\* is ok after every successful save, in the foreground or in the
\* background; a failed foreground save leaves it as it was.
C8_StatusOfBackgroundSave ==
    [][/\ (ForkFails \/ ChildFailureHandled \/ ChildKillHandled) =>
             (server'.lastbgsave_status = REDIS_ERR)
       /\ (FgSaveSucceeds \/ BgSaveSucceeds) =>
             (server'.lastbgsave_status = REDIS_OK)
       /\ FgSaveFails =>
             (server'.lastbgsave_status = server.lastbgsave_status)]_vars

\* SAVE has just failed with a write error and the status still reads ok
C8_Witness ==
    /\ reply = shared_err
    /\ log = logWriteError
    /\ ParentIdle
    /\ server.lastbgsave_status = REDIS_OK

\* the step in which a server that has just saved with success starts
\* again and loads the snapshot to its end
SavedThenLoaded ==
    /\ reply = shared_ok
    /\ Restart
    /\ reply' = replyLoaded(REDIS_OK)

Loaded == Restart /\ reply' = replyLoaded(REDIS_OK)

\* C10: of a key the snapshot records with a deadline that has passed at
\* the load, a primary adds neither the key nor the deadline, and a replica
\* adds the key with its value and its deadline.
C10_ExpiredOnLoad ==
    [][Loaded =>
          \A e \in snapshotEntries(fs.target) :
             (e.expire # -1 /\ e.expire < now) =>
                IF server.masterhost = NULL
                THEN /\ e.key \notin DOMAIN db'[e.db].dict
                     /\ e.key \notin DOMAIN db'[e.db].expires
                ELSE /\ e.key \in DOMAIN db'[e.db].dict
                     /\ logicalValue(db'[e.db].dict[e.key]) = e.val
                     /\ e.key \in DOMAIN db'[e.db].expires
                     /\ db'[e.db].expires[e.key] = e.expire]_vars

\* a replica has just loaded a key whose deadline had passed
C10_Witness ==
    /\ reply = replyLoaded(REDIS_OK)
    /\ server.lastsave = now
    /\ server.masterhost # NULL
    /\ \E j \in DbIds :
          /\ RTKey \in DOMAIN db[j].expires
          /\ db[j].expires[RTKey] < now

-----------------------------------------------------------------------------
(* The length codec *)

\* the reader has read the whole of what rdbSaveLen wrote
LenRead == codec.pc = "loaded"

\* C20: for every length of 32 bits, what rdbLoadLen reads back from the
\* bytes rdbSaveLen wrote is that length, not flagged as an encoding and
\* not the value the reader returns when it fails.
C20_LenRoundTrip ==
    LenRead => /\ codec.ret = codec.len
               /\ codec.isencoded = 0
               /\ codec.ret # REDIS_RDB_LENERR


-----------------------------------------------------------------------------

-----------------------------------------------------------------------------
(* Strings on disk (rdb.c).  A byte string is the sequence of its bytes,     *)
(* each a one-character string, NUL for the zero byte; what is written is    *)
(* the record of the header bytes hdr, numbers, and the payload bytes data.  *)

NUL == "NUL"
REDIS_RDB_ENC_INT8 == 0
REDIS_RDB_ENC_INT16 == 1
REDIS_RDB_ENC_INT32 == 2
REDIS_RDB_ENC_LZF == 3

Digits == {Digit(d) : d \in 0..9}
DigitValue(c) == CHOOSE d \in 0..9 : Digit(d) = c

\* ll2string(buf, 32, value) for a value of 32 bits, as bytes
RECURSIVE ll2bytes(_)
ll2bytes(value) ==
    IF value = -2147483647 - 1
    THEN <<"-", "2", "1", "4", "7", "4", "8", "3", "6", "4", "8">>
    ELSE IF value < 0 THEN <<"-">> \o ll2bytes(-value)
    ELSE IF value < 10 THEN <<Digit(value)>>
    ELSE ll2bytes(value \div 10) \o <<Digit(value % 10)>>

\* the digits of strtoll from position i on, accumulated below zero the way
\* strtoll does to reach LLONG_MIN: [acc, wide, endptr], wide when the value
\* left the range of 32 bits
RECURSIVE strtollDigits(_, _, _, _)
strtollDigits(s, i, acc, wide) ==
    IF i > Len(s) \/ s[i] \notin Digits
    THEN [acc |-> acc, wide |-> wide, endptr |-> i]
    ELSE LET d == DigitValue(s[i]) IN
         IF wide \/ acc < -214748364 \/ (acc = -214748364 /\ d > 8)
         THEN strtollDigits(s, i + 1, 0, TRUE)
         ELSE strtollDigits(s, i + 1, acc * 10 - d, FALSE)

\* the first position of s from i on that holds no space
RECURSIVE skipSpaces(_, _)
skipSpaces(s, i) ==
    IF i <= Len(s) /\ s[i] = " " THEN skipSpaces(s, i + 1) ELSE i

\* strtoll(s, &endptr, 10) for s of at most 11 bytes:
\* [value, wide, endptr], wide when the value does not fit 32 bits and
\* endptr the position of the first byte not converted (Len(s) + 1 is the
\* terminating zero byte of the buffer)
strtoll(s) ==
    LET b == skipSpaces(s, 1)
        neg == b <= Len(s) /\ s[b] = "-"
        signed == b <= Len(s) /\ s[b] \in {"-", "+"}
        f == IF signed THEN b + 1 ELSE b
        r == strtollDigits(s, f, 0, FALSE)
    IN IF r.endptr = f THEN [value |-> 0, wide |-> FALSE, endptr |-> 1]
       ELSE IF r.wide \/ (~neg /\ r.acc = -2147483647 - 1)
       THEN [value |-> 0, wide |-> TRUE, endptr |-> r.endptr]
       ELSE [value |-> IF neg THEN r.acc ELSE -r.acc, wide |-> FALSE,
             endptr |-> r.endptr]

\* the bytes of value, least significant first: value & 0xFF,
\* (value >> 8) & 0xFF, ...
RECURSIVE littleEndian(_, _)
littleEndian(value, n) ==
    IF n = 0 THEN <<>>
    ELSE <<value % 256>> \o littleEndian((value - (value % 256)) \div 256, n - 1)

\* rdbEncodeInteger(value, enc): the bytes of enc, none when 0 is returned
rdbEncodeInteger(value) ==
    IF value >= -128 /\ value <= 127
    THEN <<REDIS_RDB_ENCVAL * 64 + REDIS_RDB_ENC_INT8>> \o littleEndian(value, 1)
    ELSE IF value >= -32768 /\ value <= 32767
    THEN <<REDIS_RDB_ENCVAL * 64 + REDIS_RDB_ENC_INT16>> \o littleEndian(value, 2)
    ELSE <<REDIS_RDB_ENCVAL * 64 + REDIS_RDB_ENC_INT32>> \o littleEndian(value, 4)

\* an encoder that trusts strtoll and does not compare the text
rdbTryIntegerEncoding_noCompare(s) ==
    LET r == strtoll(s) IN
    IF r.endptr <= Len(s) /\ s[r.endptr] # NUL THEN <<>>
    ELSE IF r.wide THEN <<>>
    ELSE rdbEncodeInteger(r.value)

\* rdbTryIntegerEncoding(s, len, enc): the bytes of enc, none when 0 is
\* returned
rdbTryIntegerEncoding(s) ==
    LET r == strtoll(s) IN
    IF r.endptr <= Len(s) /\ s[r.endptr] # NUL THEN <<>>
    ELSE IF r.wide THEN <<>>
    ELSE IF ll2bytes(r.value) # s THEN <<>>
    ELSE rdbEncodeInteger(r.value)

\* the run of equal bytes at the head of s, at most 9 long
RECURSIVE runLength(_, _)
runLength(s, n) ==
    IF n < Len(s) /\ n < 9 /\ s[n + 1] = s[1] THEN runLength(s, n + 1) ELSE n

\* lzf_compress(in, in_len, out, out_len): the bytes of out, none when the
\* output does not fit out_len and 0 is returned
RECURSIVE lzfRuns(_)
lzfRuns(s) ==
    IF s = <<>> THEN <<>>
    ELSE LET n == runLength(s, 1)
         IN <<s[1], Digit(n)>> \o lzfRuns(SubSeq(s, n + 1, Len(s)))

lzf_compress(s, out_len) ==
    LET out == lzfRuns(s) IN IF Len(out) > out_len THEN <<>> ELSE out

\* lzf_decompress(in, in_len, out, out_len): the bytes of out, none when
\* they are not out_len bytes and 0 is returned
RECURSIVE lzfExpand(_)
lzfExpand(c) ==
    IF Len(c) < 2 THEN <<>>
    ELSE [i \in 1..DigitValue(c[2]) |-> c[1]] \o lzfExpand(SubSeq(c, 3, Len(c)))

lzf_decompress(c, out_len) ==
    LET out == lzfExpand(c) IN IF Len(out) # out_len THEN <<>> ELSE out

noString == [hdr |-> <<>>, data |-> <<>>]

\* rdbSaveLzfStringObject(rdb, s, len): what is written, nothing when 0 is
\* returned
rdbSaveLzfStringObject(s) ==
    IF Len(s) <= 4 THEN noString
    ELSE LET out == lzf_compress(s, Len(s) - 4) IN
         IF Len(out) = 0 THEN noString
         ELSE [hdr |-> <<REDIS_RDB_ENCVAL * 64 + REDIS_RDB_ENC_LZF>>
                        \o rdbSaveLen(uint32(Len(out)))
                        \o rdbSaveLen(uint32(Len(s))),
               data |-> out]

\* rdbSaveRawString(rdb, s, len) with server.rdb_compression: what is written
rdbSaveRawStringBytes(s, rdb_compression) ==
    LET enc == IF Len(s) <= 11 THEN rdbTryIntegerEncoding(s) ELSE <<>>
        lzf == IF rdb_compression /\ Len(s) > 20
               THEN rdbSaveLzfStringObject(s) ELSE noString
    IN IF Len(enc) > 0 THEN [hdr |-> enc, data |-> <<>>]
       ELSE IF lzf # noString THEN lzf
       ELSE [hdr |-> rdbSaveLen(uint32(Len(s))), data |-> s]

\* the number of bytes rdbLoadLen takes from buf
rdbLenSize(buf) ==
    LET type == buf[1] \div 64 IN
    IF type = REDIS_RDB_32BITLEN THEN 5
    ELSE IF type = REDIS_RDB_14BITLEN THEN 2 ELSE 1

\* a uint32_t below 2^16 as a number
uint32Value(len) == len[3] * 256 + len[4]

\* rdbLoadIntegerObject(rdb, enctype, encode): the string of the value read
\* from the bytes enc
rdbLoadIntegerObject(enctype, enc) ==
    IF enctype = REDIS_RDB_ENC_INT8
    THEN ll2bytes(IF enc[1] >= 128 THEN enc[1] - 256 ELSE enc[1])
    ELSE IF enctype = REDIS_RDB_ENC_INT16
    THEN LET v == enc[1] + enc[2] * 256
         IN ll2bytes(IF v >= 32768 THEN v - 65536 ELSE v)
    ELSE ll2bytes(enc[1] + enc[2] * 256 + enc[3] * 65536
                  + (IF enc[4] >= 128 THEN enc[4] - 256 ELSE enc[4]) * 16777216)

\* rdbLoadLzfStringObject(rdb) over the bytes left of the header and the
\* payload
rdbLoadLzfStringObject(hdr, data) ==
    LET clen == uint32Value(rdbLoadLen(hdr).ret)
        rest == SubSeq(hdr, rdbLenSize(hdr) + 1, Len(hdr))
        len == uint32Value(rdbLoadLen(rest).ret)
    IN lzf_decompress(SubSeq(data, 1, clen), len)

\* rdbGenericLoadStringObject(rdb, encode): the string read from what was
\* written
rdbGenericLoadStringBytes(w) ==
    LET l == rdbLoadLen(w.hdr)
        rest == SubSeq(w.hdr, rdbLenSize(w.hdr) + 1, Len(w.hdr))
    IN IF l.isencoded = 1
       THEN IF uint32Value(l.ret) = REDIS_RDB_ENC_LZF
            THEN rdbLoadLzfStringObject(rest, w.data)
            ELSE rdbLoadIntegerObject(uint32Value(l.ret), rest)
       ELSE SubSeq(w.data, 1, uint32Value(l.ret))

\* the bytes of the strings given to the writer
StrAlphabet == {"0", "1", "2", "-", "+", " ", "a", NUL}
MaxStrLen == 3
\* 21 and 24 equal bytes, 22 bytes without a run, and a run of 21 digits
StrRun21 == [i \in 1..21 |-> "a"]
StrRun24 == [i \in 1..24 |-> "a"]
StrMixed22 == [i \in 1..22 |-> IF i % 2 = 0 THEN "a" ELSE "1"]
StrOnes21 == [i \in 1..21 |-> "1"]
StrLong ==
    {<<"1", "2", "7">>, <<"1", "2", "8">>, <<"-", "1", "2", "8">>,
     <<"-", "1", "2", "9">>, <<"3", "2", "7", "6", "7">>,
     <<"3", "2", "7", "6", "8">>, <<"-", "3", "2", "7", "6", "8">>,
     <<"-", "3", "2", "7", "6", "9">>,
     <<"2", "1", "4", "7", "4", "8", "3", "6", "4", "7">>,
     <<"2", "1", "4", "7", "4", "8", "3", "6", "4", "8">>,
     <<"-", "2", "1", "4", "7", "4", "8", "3", "6", "4", "8">>,
     <<"-", "2", "1", "4", "7", "4", "8", "3", "6", "4", "9">>,
     <<"9", "9", "9", "9", "9", "9", "9", "9", "9", "9", "9">>,
     <<"1", "0", "0", "0", "0", "0", "0", "0", "0", "0", "0", "0">>,
     <<"1", "2", NUL, "a", "a">>, <<" ", "-", "1", "2", " ">>,
     StrRun21, StrRun24, StrMixed22, StrOnes21}
StrInputs ==
    UNION {[1..n -> StrAlphabet] : n \in 0..MaxStrLen} \cup StrLong

InitStr ==
    /\ now = 0
    /\ db = emptyDbs
    /\ server = initServer(NULL)
    /\ fs = [target |-> NoFile, temp |-> [p \in Pids |-> NoFile]]
    /\ saver = [p \in Pids |-> idleSaver]
    /\ childdb = emptyDbs
    /\ reply = noReply
    /\ log = noLog
    /\ mbulk = <<>>
    /\ \E s \in StrInputs, rdb_compression \in BOOLEAN :
          codec = [pc |-> "idle", s |-> s, rdb_compression |-> rdb_compression,
                   w |-> noString, val |-> <<>>]

\* rdbSaveRawString(rdb, s, len)
SaveString ==
    /\ codec.pc = "idle"
    /\ codec' = [codec EXCEPT !.pc = "saved",
                              !.w = rdbSaveRawStringBytes(codec.s,
                                                          codec.rdb_compression)]
    /\ UNCHANGED <<db, server, now, fs, saver, childdb, reply, log, mbulk>>

\* rdbGenericLoadStringObject(rdb, 0)
LoadString ==
    /\ codec.pc = "saved"
    /\ codec' = [codec EXCEPT !.pc = "loaded",
                              !.val = rdbGenericLoadStringBytes(codec.w)]
    /\ UNCHANGED <<db, server, now, fs, saver, childdb, reply, log, mbulk>>

NextStr ==
    \/ SaveString
    \/ LoadString

SpecStr == InitStr /\ [][NextStr]_vars


-----------------------------------------------------------------------------
(* The checksum trailer (rdb.c, rio.h).  A file is its version, the bytes    *)
(* from the magic through the EOF opcode, and the trailer.                   *)

\* the values of the checksum: crc64 folded into a small range
CrcMod == 5
\* crc64(crc, s, l): the checksum crc carried over the bytes s
RECURSIVE crc64(_, _)
crc64(crc, s) ==
    IF s = <<>> THEN crc
    ELSE crc64((crc * 3 + s[1] + 1) % CrcMod, Tail(s))

\* rioGenericUpdateChecksum over everything a rio wrote or read: rdb.cksum,
\* which stays 0 when update_cksum is not set
rioCksum(rdb_checksum, bytes) == IF rdb_checksum THEN crc64(0, bytes) ELSE 0

\* the bytes rdbSave writes before the trailer: the magic with the version,
\* the records and the EOF opcode
rdbSaveBytes(body) == <<REDIS_RDB_VERSION>> \o body \o <<255>>

\* rdbSave: the file written with server.rdb_checksum
rdbSaveTrailer(rdb_checksum, body) ==
    [version |-> REDIS_RDB_VERSION, bytes |-> rdbSaveBytes(body),
     trailer |-> rioCksum(rdb_checksum, rdbSaveBytes(body))]

\* a loader that takes a zero trailer for a checksum like any other
rdbLoadTrailer_strict(f, rdb_checksum) ==
    IF f.version < 1 \/ f.version > REDIS_RDB_VERSION THEN REDIS_ERR
    ELSE IF f.version >= 5 /\ rdb_checksum
            /\ f.trailer # rioCksum(rdb_checksum, f.bytes)
    THEN "exit"
    ELSE REDIS_OK

\* rdbLoad once the records are read, with server.rdb_checksum: REDIS_OK,
\* REDIS_ERR, or "exit" when the process ends
rdbLoadTrailer(f, rdb_checksum) ==
    IF f.version < 1 \/ f.version > REDIS_RDB_VERSION THEN REDIS_ERR
    ELSE IF f.version >= 5 /\ rdb_checksum
    THEN LET expected == rioCksum(rdb_checksum, f.bytes) IN
         IF f.trailer = 0 THEN REDIS_OK
         ELSE IF f.trailer # expected THEN "exit"
         ELSE REDIS_OK
    ELSE REDIS_OK

MaxBody == 2
CkBytes == {0, 1}
CkBodies == UNION {[1..n -> CkBytes] : n \in 0..MaxBody}
\* the versions of the files found on disk
CkVersions == {4, 5, REDIS_RDB_VERSION, REDIS_RDB_VERSION + 1}

InitCk ==
    /\ now = 0
    /\ db = emptyDbs
    /\ server = initServer(NULL)
    /\ fs = [target |-> NoFile, temp |-> [p \in Pids |-> NoFile]]
    /\ saver = [p \in Pids |-> idleSaver]
    /\ childdb = emptyDbs
    /\ reply = noReply
    /\ log = noLog
    /\ mbulk = <<>>
    /\ \E body \in CkBodies, rdb_checksum \in BOOLEAN :
          codec = [pc |-> "idle", body |-> body, rdb_checksum |-> rdb_checksum,
                   f |-> [version |-> 0, bytes |-> <<>>, trailer |-> 0],
                   ret |-> NULL]

\* rdbSave
SaveTrailer ==
    /\ codec.pc = "idle"
    /\ codec' = [codec EXCEPT !.pc = "saved",
                              !.f = rdbSaveTrailer(codec.rdb_checksum, codec.body)]
    /\ UNCHANGED <<db, server, now, fs, saver, childdb, reply, log, mbulk>>

\* the file on disk is replaced by one of another version, or one of its
\* bytes or its trailer is damaged
DamageFile ==
    /\ codec.pc = "saved"
    /\ \/ \E v \in CkVersions :
             codec' = [codec EXCEPT !.pc = "damaged", !.f.version = v,
                                    !.f.bytes[1] = v]
       \/ \E i \in 2..Len(codec.f.bytes), b \in CkBytes :
             /\ b # codec.f.bytes[i]
             /\ codec' = [codec EXCEPT !.pc = "damaged", !.f.bytes[i] = b]
       \/ \E t \in 0..(CrcMod - 1) :
             /\ t # codec.f.trailer
             /\ codec' = [codec EXCEPT !.pc = "damaged", !.f.trailer = t]
    /\ UNCHANGED <<db, server, now, fs, saver, childdb, reply, log, mbulk>>

\* CONFIG SET rdbchecksum
ConfigChecksum ==
    /\ codec.pc \in {"saved", "damaged"}
    /\ codec' = [codec EXCEPT !.rdb_checksum = ~codec.rdb_checksum]
    /\ UNCHANGED <<db, server, now, fs, saver, childdb, reply, log, mbulk>>

\* rdbLoad
LoadTrailer ==
    /\ codec.pc \in {"saved", "damaged"}
    /\ codec' = [codec EXCEPT !.pc = "loaded",
                              !.ret = rdbLoadTrailer(codec.f, codec.rdb_checksum)]
    /\ UNCHANGED <<db, server, now, fs, saver, childdb, reply, log, mbulk>>

NextCk ==
    \/ SaveTrailer
    \/ DamageFile
    \/ ConfigChecksum
    \/ LoadTrailer

SpecCk == InitCk /\ [][NextCk]_vars


-----------------------------------------------------------------------------
(* The allocator (zmalloc.c).  A block is the record of the size the caller  *)
(* asked for and of the size malloc_size reports for it; the heap maps the   *)
(* pointers in use to their blocks.                                          *)

SizeofLong == 8
\* PREFIX_SIZE: 0 with HAVE_MALLOC_SIZE, sizeof(size_t) without
PREFIX_SIZE(have_malloc_size) == IF have_malloc_size THEN 0 ELSE SizeofLong

\* if (_n&(sizeof(long)-1)) _n += sizeof(long)-(_n&(sizeof(long)-1))
zmallocRound(n) ==
    IF n % SizeofLong # 0 THEN n + (SizeofLong - (n % SizeofLong)) ELSE n

\* what update_zmalloc_stat_alloc and update_zmalloc_stat_free are given
\* for a block by zmalloc, zcalloc and zfree
zmallocStat(z, b) ==
    IF z.have_malloc_size THEN b.usable
    ELSE b.size + PREFIX_SIZE(z.have_malloc_size)

\* zmalloc(size) and zcalloc(size), malloc giving the pointer ptr to a
\* block that malloc_size reports as usable bytes
zmalloc(z, ptr, size, usable) ==
    LET b == [size |-> size, usable |-> usable] IN
    [z EXCEPT !.heap = (ptr :> b) @@ z.heap,
              !.used_memory = z.used_memory + zmallocRound(zmallocStat(z, b)),
              !.sub = 0,
              !.add = zmallocRound(zmallocStat(z, b))]

\* a zfree that gives back the size kept in the header without the header
zfree_noPrefix(z, ptr) ==
    LET b == z.heap[ptr]
        oldsize == IF z.have_malloc_size THEN b.usable ELSE b.size
    IN [z EXCEPT !.heap = [p \in (DOMAIN z.heap) \ {ptr} |-> z.heap[p]],
                 !.used_memory = z.used_memory - zmallocRound(oldsize),
                 !.sub = zmallocRound(oldsize),
                 !.add = 0]

\* zfree(ptr) for a pointer in use
zfree(z, ptr) ==
    LET b == z.heap[ptr] IN
    [z EXCEPT !.heap = [p \in (DOMAIN z.heap) \ {ptr} |-> z.heap[p]],
              !.used_memory = z.used_memory - zmallocRound(zmallocStat(z, b)),
              !.sub = zmallocRound(zmallocStat(z, b)),
              !.add = 0]

\* zrealloc(ptr, size) for a pointer in use: oldsize is malloc_size(ptr)
\* with HAVE_MALLOC_SIZE and the size kept in the header without, and the
\* size added is malloc_size(newptr) or size
zrealloc(z, ptr, size, usable) ==
    LET old == z.heap[ptr]
        b == [size |-> size, usable |-> usable]
        oldsize == IF z.have_malloc_size THEN old.usable ELSE old.size
        newsize == IF z.have_malloc_size THEN usable ELSE size
    IN [z EXCEPT !.heap = (ptr :> b) @@ z.heap,
                 !.used_memory = (z.used_memory - zmallocRound(oldsize))
                                 + zmallocRound(newsize),
                 !.sub = zmallocRound(oldsize),
                 !.add = zmallocRound(newsize)]

MaxBlocks == 2
ZmPtrs == 1..MaxBlocks
ZmSizes == {0, 1, 8, 9}
\* what malloc_size may report for a request of size bytes
ZmUsable(size) == {size, size + 3}

InitZm ==
    /\ now = 0
    /\ db = emptyDbs
    /\ server = initServer(NULL)
    /\ fs = [target |-> NoFile, temp |-> [p \in Pids |-> NoFile]]
    /\ saver = [p \in Pids |-> idleSaver]
    /\ childdb = emptyDbs
    /\ reply = noReply
    /\ log = noLog
    /\ mbulk = <<>>
    /\ \E have_malloc_size \in BOOLEAN :
          codec = [have_malloc_size |-> have_malloc_size, heap |-> <<>>,
                   used_memory |-> 0, op |-> "none", sub |-> 0, add |-> 0]

\* zmalloc(size)
Zmalloc ==
    /\ \E ptr \in ZmPtrs \ DOMAIN codec.heap, size \in ZmSizes :
          \E usable \in ZmUsable(size) :
             codec' = [zmalloc(codec, ptr, size, usable) EXCEPT !.op = "zmalloc"]
    /\ UNCHANGED <<db, server, now, fs, saver, childdb, reply, log, mbulk>>

\* zcalloc(size)
Zcalloc ==
    /\ \E ptr \in ZmPtrs \ DOMAIN codec.heap, size \in ZmSizes :
          \E usable \in ZmUsable(size) :
             codec' = [zmalloc(codec, ptr, size, usable) EXCEPT !.op = "zcalloc"]
    /\ UNCHANGED <<db, server, now, fs, saver, childdb, reply, log, mbulk>>

\* zrealloc(ptr, size) for a pointer in use, the block staying where it is
\* or not (the pointer names the block either way)
Zrealloc ==
    /\ \E ptr \in DOMAIN codec.heap, size \in ZmSizes :
          \E usable \in ZmUsable(size) :
             codec' = [zrealloc(codec, ptr, size, usable) EXCEPT !.op = "zrealloc"]
    /\ UNCHANGED <<db, server, now, fs, saver, childdb, reply, log, mbulk>>

\* zrealloc(NULL, size): zmalloc(size)
ZreallocNull ==
    /\ \E ptr \in ZmPtrs \ DOMAIN codec.heap, size \in ZmSizes :
          \E usable \in ZmUsable(size) :
             codec' = [zmalloc(codec, ptr, size, usable) EXCEPT !.op = "zrealloc"]
    /\ UNCHANGED <<db, server, now, fs, saver, childdb, reply, log, mbulk>>

\* zfree(ptr) for a pointer in use
Zfree ==
    /\ \E ptr \in DOMAIN codec.heap :
          codec' = [zfree(codec, ptr) EXCEPT !.op = "zfree"]
    /\ UNCHANGED <<db, server, now, fs, saver, childdb, reply, log, mbulk>>

\* zfree(NULL) returns at once
ZfreeNull ==
    /\ codec.op # "zfree(NULL)"
    /\ codec' = [codec EXCEPT !.op = "zfree(NULL)", !.sub = 0, !.add = 0]
    /\ UNCHANGED <<db, server, now, fs, saver, childdb, reply, log, mbulk>>

NextZm ==
    \/ Zmalloc
    \/ Zcalloc
    \/ Zrealloc
    \/ ZreallocNull
    \/ Zfree
    \/ ZfreeNull

SpecZm == InitZm /\ [][NextZm]_vars


(* The counter under threads (zmalloc.c).  Each thread is at a position of   *)
(* update_zmalloc_stat_alloc or update_zmalloc_stat_free with the amount n   *)
(* it adds; done is the sum of the amounts whose update has been made, live  *)
(* the bytes of the blocks no thread is freeing.                             *)

Threads == {1, 2}
MaxOps == 3
StatAmounts == {8, 16, -8}

\* how update_zmalloc_stat_alloc and update_zmalloc_stat_free update the
\* counter when thread safeness was never asked for
statPath_plain(z) == "load"

\* how update_zmalloc_stat_alloc and update_zmalloc_stat_free update the
\* counter: by __sync_add_and_fetch, under used_memory_mutex, or by a plain
\* used_memory += n, which loads and stores
statPath(z) ==
    IF z.zmalloc_thread_safe
    THEN IF z.have_atomic THEN "atomic" ELSE "lock"
    ELSE "load"

idleThread == [pc |-> "idle", n |-> 0, reg |-> 0]

InitZmT ==
    /\ now = 0
    /\ db = emptyDbs
    /\ server = initServer(NULL)
    /\ fs = [target |-> NoFile, temp |-> [p \in Pids |-> NoFile]]
    /\ saver = [p \in Pids |-> idleSaver]
    /\ childdb = emptyDbs
    /\ reply = noReply
    /\ log = noLog
    /\ mbulk = <<>>
    /\ \E have_atomic \in BOOLEAN :
          codec = [have_atomic |-> have_atomic, zmalloc_thread_safe |-> FALSE,
                   used_memory |-> 0, mutex |-> 0,
                   th |-> [t \in Threads |-> idleThread],
                   done |-> 0, live |-> 0, racy |-> FALSE, ops |-> 0,
                   um |-> 0, op |-> "none"]

\* zmalloc_enable_thread_safeness()
EnableThreadSafeness ==
    /\ ~codec.zmalloc_thread_safe
    /\ codec' = [codec EXCEPT !.zmalloc_thread_safe = TRUE, !.op = "enable"]
    /\ UNCHANGED <<db, server, now, fs, saver, childdb, reply, log, mbulk>>

\* a thread enters update_zmalloc_stat_alloc (n > 0) or
\* update_zmalloc_stat_free (n < 0) and tests zmalloc_thread_safe
StatBegin ==
    /\ codec.ops < MaxOps
    /\ \E t \in Threads, n \in StatAmounts :
          /\ codec.th[t].pc = "idle"
          /\ n < 0 => codec.live >= -n
          /\ LET path == statPath(codec)
                 z == [codec EXCEPT !.ops = codec.ops + 1, !.op = "update",
                                    !.live = IF n < 0 THEN codec.live + n
                                             ELSE codec.live]
             IN codec' =
                  IF path = "atomic"
                  THEN [z EXCEPT !.used_memory = codec.used_memory + n,
                                 !.done = codec.done + n,
                                 !.live = IF n > 0 THEN z.live + n ELSE z.live]
                  ELSE [z EXCEPT !.th[t] = [pc |-> path, n |-> n, reg |-> 0],
                                 !.racy = codec.racy
                                          \/ ~codec.zmalloc_thread_safe]
    /\ UNCHANGED <<db, server, now, fs, saver, childdb, reply, log, mbulk>>

\* pthread_mutex_lock(&used_memory_mutex)
MutexLock ==
    /\ \E t \in Threads :
          /\ codec.th[t].pc = "lock"
          /\ codec.mutex = 0
          /\ codec' = [codec EXCEPT !.mutex = t, !.th[t].pc = "locked",
                                    !.op = "update"]
    /\ UNCHANGED <<db, server, now, fs, saver, childdb, reply, log, mbulk>>

\* used_memory += n under the mutex
StatLocked ==
    /\ \E t \in Threads :
          /\ codec.th[t].pc = "locked"
          /\ codec' = [codec EXCEPT
                         !.used_memory = codec.used_memory + codec.th[t].n,
                         !.done = codec.done + codec.th[t].n,
                         !.live = IF codec.th[t].n > 0
                                  THEN codec.live + codec.th[t].n ELSE codec.live,
                         !.th[t].pc = "unlock", !.op = "update"]
    /\ UNCHANGED <<db, server, now, fs, saver, childdb, reply, log, mbulk>>

\* pthread_mutex_unlock(&used_memory_mutex)
MutexUnlock ==
    /\ \E t \in Threads :
          /\ codec.th[t].pc = "unlock"
          /\ codec' = [codec EXCEPT !.mutex = 0, !.th[t] = idleThread,
                                    !.op = "update"]
    /\ UNCHANGED <<db, server, now, fs, saver, childdb, reply, log, mbulk>>

\* used_memory += n without the mutex: the load
StatLoad ==
    /\ \E t \in Threads :
          /\ codec.th[t].pc = "load"
          /\ codec' = [codec EXCEPT !.th[t].reg = codec.used_memory,
                                    !.th[t].pc = "store", !.op = "update"]
    /\ UNCHANGED <<db, server, now, fs, saver, childdb, reply, log, mbulk>>

\* used_memory += n without the mutex: the store
StatStore ==
    /\ \E t \in Threads :
          /\ codec.th[t].pc = "store"
          /\ codec' = [codec EXCEPT
                         !.used_memory = codec.th[t].reg + codec.th[t].n,
                         !.done = codec.done + codec.th[t].n,
                         !.live = IF codec.th[t].n > 0
                                  THEN codec.live + codec.th[t].n ELSE codec.live,
                         !.th[t] = idleThread, !.op = "update"]
    /\ UNCHANGED <<db, server, now, fs, saver, childdb, reply, log, mbulk>>

\* zmalloc_used_memory() by a thread that is in no update: an atomic read,
\* a read under the mutex, or a plain read
UsedMemory ==
    /\ codec.op # "read"
    /\ \E t \in Threads :
          /\ codec.th[t].pc = "idle"
          /\ (codec.zmalloc_thread_safe /\ ~codec.have_atomic) => codec.mutex = 0
          /\ codec' = [codec EXCEPT !.um = codec.used_memory, !.op = "read"]
    /\ UNCHANGED <<db, server, now, fs, saver, childdb, reply, log, mbulk>>

NextZmT ==
    \/ EnableThreadSafeness
    \/ StatBegin
    \/ MutexLock
    \/ StatLocked
    \/ MutexUnlock
    \/ StatLoad
    \/ StatStore
    \/ UsedMemory

SpecZmT == InitZmT /\ [][NextZmT]_vars


-----------------------------------------------------------------------------
(* sdsrange (sds.c).  An sds is the record of its bytes buf, of which len    *)
(* are in use, and of the free bytes after them.                             *)

\* (end-start)+1 in an int: past INT_MAX it wraps to INT_MIN
sdsrangeSpan(start, end) ==
    IF end - start = 2147483647 THEN -2147483647 - 1 ELSE (end - start) + 1

\* sdsrange with end taken as the first position not kept
sdsrange_exclusive(sh, start0, end0) ==
    LET len == sh.len
        start1 == IF start0 < 0
                  THEN (IF len + start0 < 0 THEN 0 ELSE len + start0) ELSE start0
        end1 == IF end0 < 0
                THEN (IF len + end0 < 0 THEN 0 ELSE len + end0) ELSE end0
        newlen == IF start1 >= end1 \/ start1 >= len THEN 0
                  ELSE (IF end1 > len THEN len ELSE end1) - start1
    IN IF len = 0 THEN sh
       ELSE [buf |-> SubSeq(sh.buf, start1 + 1, start1 + newlen),
             len |-> newlen, free |-> sh.free + (sh.len - newlen)]

\* sdsrange(s, start, end): the header and the bytes afterwards
sdsrange(sh, start0, end0) ==
    LET len == sh.len
        start1 == IF start0 < 0
                  THEN (IF len + start0 < 0 THEN 0 ELSE len + start0) ELSE start0
        end1 == IF end0 < 0
                THEN (IF len + end0 < 0 THEN 0 ELSE len + end0) ELSE end0
        newlen1 == IF start1 > end1 THEN 0 ELSE sdsrangeSpan(start1, end1)
        end2 == IF newlen1 # 0 /\ start1 < len /\ end1 >= len THEN len - 1 ELSE end1
        newlen == IF newlen1 # 0
                  THEN IF start1 >= len THEN 0
                       ELSE IF end1 >= len
                       THEN (IF start1 > end2 THEN 0 ELSE sdsrangeSpan(start1, end2))
                       ELSE newlen1
                  ELSE 0
        start == IF newlen1 # 0 THEN start1 ELSE 0
    IN IF len = 0 THEN sh
       ELSE [buf |-> IF start # 0 /\ newlen # 0
                     THEN SubSeq(sh.buf, start + 1, start + newlen)
                     ELSE SubSeq(sh.buf, 1, newlen),
             len |-> newlen,
             free |-> sh.free + (sh.len - newlen)]

SdsBufs == {<<>>, <<"a">>, <<"c", "i", "a", "o">>}
SdsFrees == {0, 2}
SdsIndexes ==
    {-2147483647 - 1, -100, -5, -4, -3, -2, -1, 0, 1, 2, 3, 4, 5, 100, 2147483647}

InitSds ==
    /\ now = 0
    /\ db = emptyDbs
    /\ server = initServer(NULL)
    /\ fs = [target |-> NoFile, temp |-> [p \in Pids |-> NoFile]]
    /\ saver = [p \in Pids |-> idleSaver]
    /\ childdb = emptyDbs
    /\ reply = noReply
    /\ log = noLog
    /\ mbulk = <<>>
    /\ \E buf \in SdsBufs, free \in SdsFrees, start \in SdsIndexes,
          end \in SdsIndexes :
          codec = [pc |-> "idle", s |-> [buf |-> buf, len |-> Len(buf), free |-> free],
                   start |-> start, end |-> end,
                   y |-> [buf |-> buf, len |-> Len(buf), free |-> free]]

\* y = sdsdup(s); sdsrange(y, start, end)
Sdsrange ==
    /\ codec.pc = "idle"
    /\ codec' = [codec EXCEPT !.pc = "ranged",
                              !.y = sdsrange(codec.s, codec.start, codec.end)]
    /\ UNCHANGED <<db, server, now, fs, saver, childdb, reply, log, mbulk>>

NextSds ==
    \/ Sdsrange

SpecSds == InitSds /\ [][NextSds]_vars


(* HINCRBY at the ends of the range of a long long *)

IncrHashes ==
    {hashOf(createHashObject, <<<<"f", v>>>>, 1) :
        v \in {"1", "-1", "0", "v", ll2string(LLONG_MAX), ll2string(LLONG_MIN)}}
        \cup {hashOf(createHashObject, <<<<"g", "1">>>>, 1)}
IncrDatabases ==
    {emptyDb, dbOfA(TS12)} \cup {dbOfA(h) : h \in IncrHashes}
        \cup {setExpire(dbOfA(h), "a", 1) : h \in IncrHashes}
IncrArgs == {"1", "-1", "0", "2", ll2string(LLONG_MAX), ll2string(LLONG_MIN)}
IncrFields == {"f", "g"}

InitIncr ==
    /\ now = 0
    /\ \E d \in IncrDatabases : db = [emptyDbs EXCEPT ![1] = d]
    /\ server = initServer(NULL)
    /\ fs = [target |-> NoFile, temp |-> [p \in Pids |-> NoFile]]
    /\ saver = [p \in Pids |-> idleSaver]
    /\ childdb = emptyDbs
    /\ reply = noReply
    /\ log = noLog
    /\ mbulk = <<>>
    /\ codec = idleCodec

\* HINCRBY key field incr, whatever the sum
HINCRBYANY ==
    /\ Accepts
    /\ \E key \in {TKey}, field \in IncrFields, incr \in IncrArgs :
          Executes(1, hincrbyCommand(db[1], key, field, incr))

NextIncr ==
    \/ HINCRBYANY
    \/ Tick

SpecIncr == InitIncr /\ [][NextIncr]_vars

(* Properties of the type layer *)

\* C11: in every reachable state, after any loads and set and hash commands,
\* every key that has a deadline in a database's expires is a key of that
\* database's keyspace.
C11_ExpiresInKeyspace ==
    \A j \in DbIds : DOMAIN db[j].expires \subseteq DOMAIN db[j].dict

\* a key the snapshot records with a deadline still ahead is in the keyspace
\* without a deadline: it was removed, with its deadline, and stored again
C11_Witness ==
    /\ server.dirty > 0
    /\ \E e \in snapshotEntries(fs.target) :
          /\ e.db = 1 /\ e.expire # -1 /\ now <= e.expire
          /\ e.key \in DOMAIN db[1].dict
          /\ e.key \notin DOMAIN db[1].expires

\* the encoding of the value o is one its content admits
Admissible(o) ==
    IF o.type = REDIS_HASH
    THEN (o.encoding = REDIS_ENCODING_ZIPLIST) =>
            /\ hashTypeLength(o) <= server_hash_max_ziplist_entries
            /\ \A i \in 1..Len(o.ziplist) :
                  /\ sdslen(o.ziplist[i][1]) <= server_hash_max_ziplist_value
                  /\ sdslen(o.ziplist[i][2]) <= server_hash_max_ziplist_value
    ELSE (o.encoding = REDIS_ENCODING_INTSET) =>
            /\ setTypeSize(o) <= server_set_max_intset_entries
            /\ \A m \in setTypeRandomElements(o) : isObjectRepresentableAsLongLong(m)

\* C12: in every reachable state every stored value's encoding is admissible
\* for its content: a packed hash has at most hash-max-ziplist-entries pairs
\* and no field or value longer than hash-max-ziplist-value bytes, and an
\* intset holds at most set-max-intset-entries members, all integers.
C12_EncodingAdmissible ==
    \A j \in DbIds : \A key \in DOMAIN db[j].dict : Admissible(db[j].dict[key])

\* the general forms of the encodings and the compact ones
GeneralEncodings == {REDIS_ENCODING_HT, REDIS_ENCODING_SKIPLIST}
CompactEncodings == {REDIS_ENCODING_ZIPLIST, REDIS_ENCODING_INTSET}

\* the step runs a command that stores its result at a destination key
StoreStep == SINTERSTORE \/ SUNIONSTORE \/ SDIFFSTORE

\* the value at key in database j lives on through the step: the key is
\* not past its deadline, the server does not start again and the key is
\* not the destination of a store, which would put a new object there
LivesOn(j, key) ==
    /\ key \in DOMAIN db[j].dict
    /\ key \in DOMAIN db'[j].dict
    /\ db'[j].dict[key].type = db[j].dict[key].type
    /\ ~(getExpire(db[j], key) # -1 /\ now > getExpire(db[j], key))
    /\ ~Restart
    /\ ~(key \in TDsts /\ StoreStep)

\* C13: promotion is irreversible.  No value's encoding moves from a general
\* form back to a compact form while the value lives, neither in a step of a
\* command nor between two steps of the loader that builds the value.
C13_PromotionIrreversible ==
    [][/\ \A j \in DbIds : \A key \in DOMAIN db[j].dict \cap DOMAIN db'[j].dict :
             (/\ db[j].dict[key].encoding \in GeneralEncodings
              /\ db'[j].dict[key].encoding \in CompactEncodings)
                => ~LivesOn(j, key)
       /\ (codec.pc = "elems" /\ codec.o.encoding \in GeneralEncodings)
             => (codec'.o.encoding \in GeneralEncodings)]_vars

\* the field-value pairs of the hash o
hashPairs(o) == logicalValue(o).pairs

\* some field or value of the pairs is longer than hash-max-ziplist-value
HasLong(pairs) ==
    \E p \in pairs : \/ sdslen(p[1]) > server_hash_max_ziplist_value
                     \/ sdslen(p[2]) > server_hash_max_ziplist_value

\* C14: a packed hash becomes a hash table during a command exactly when
\* the command inserts a field or value longer than hash-max-ziplist-value
\* or makes the number of entries cross hash-max-ziplist-entries; a command
\* that inserts nothing leaves the encoding as it is.
C14_HashPromotion ==
    [][\A key \in DOMAIN db[1].dict \cap DOMAIN db'[1].dict :
          (/\ db[1].dict[key].type = REDIS_HASH
           /\ db[1].dict[key].encoding = REDIS_ENCODING_ZIPLIST
           /\ LivesOn(1, key))
          => LET before == db[1].dict[key]
                 after == db'[1].dict[key]
                 inserted == hashPairs(after) \ hashPairs(before)
                 crosses == /\ hashTypeLength(before) <= server_hash_max_ziplist_entries
                            /\ hashTypeLength(after) > server_hash_max_ziplist_entries
             IN /\ (after.encoding = REDIS_ENCODING_HT) <=> (HasLong(inserted) \/ crosses)
                /\ (inserted = {}) => (after.encoding = before.encoding)]_vars

\* the members of the set o, as strings
setMembers(o) == logicalValue(o).members

\* C15: an intset set becomes a hash table during a command exactly when
\* the command adds an element that is not an integer or makes the number of
\* members cross set-max-intset-entries; adding an integer that is already a
\* member, removing members and testing membership leave the encoding as it
\* is.
C15_SetPromotion ==
    [][\A key \in DOMAIN db[1].dict \cap DOMAIN db'[1].dict :
          (/\ db[1].dict[key].type = REDIS_SET
           /\ db[1].dict[key].encoding = REDIS_ENCODING_INTSET)
          => LET before == db[1].dict[key]
                 after == db'[1].dict[key]
                 added == setMembers(after) \ setMembers(before)
                 crosses == /\ setTypeSize(before) <= server_set_max_intset_entries
                            /\ setTypeSize(after) > server_set_max_intset_entries
             IN \/ /\ (after.encoding = REDIS_ENCODING_HT)
                         <=> \/ \E m \in added : ~isObjectRepresentableAsLongLong(m)
                             \/ crosses
                   /\ (added = {}) => (after.encoding = before.encoding)
                \/ ~LivesOn(1, key)]_vars

\* an SADD of a third integer has turned the intset at "a" into a hash table
\* of three integers
C15_Witness ==
    /\ server.dirty = 1
    /\ reply = shared_cone
    /\ "a" \in DOMAIN db[1].dict
    /\ db[1].dict["a"].type = REDIS_SET
    /\ db[1].dict["a"].encoding = REDIS_ENCODING_HT
    /\ setMembers(db[1].dict["a"]) = {"1", "2", "3"}

\* the elements of a sequence
Range(seq) == {seq[i] : i \in 1..Len(seq)}

\* the value at key lives through the step and goes from a compact encoding
\* to the hash table
Promoted(key) ==
    /\ key \in DOMAIN db[1].dict \cap DOMAIN db'[1].dict
    /\ db[1].dict[key].encoding \in CompactEncodings
    /\ db'[1].dict[key].encoding = REDIS_ENCODING_HT
    /\ LivesOn(1, key)

\* C16: promotion preserves content.  A step that turns an intset into a
\* hash table loses no member, and a step that turns a packed hash into a
\* hash table loses no field; after a promoting SADD the set holds its old
\* members and the arguments, so that its size is the old size plus the new
\* members, and after a promoting HSET the hash holds its old pairs with the
\* one pair set, so that its length is the old length plus one for a new
\* field.
C16_PromotionPreserves ==
    [][\A key \in TKeys :
          Promoted(key) =>
             LET before == db[1].dict[key]
                 after == db'[1].dict[key]
             IN IF before.type = REDIS_SET
                THEN /\ setMembers(before) \subseteq setMembers(after)
                     /\ \A argv \in TAdds :
                           Executes(1, saddCommand(db[1], key, argv)) =>
                              /\ setMembers(after) = setMembers(before) \cup Range(argv)
                              /\ setTypeSize(after) =
                                    setTypeSize(before)
                                    + Cardinality(Range(argv) \ setMembers(before))
                ELSE /\ \A p \in hashPairs(before) :
                           \E q \in hashPairs(after) : q[1] = p[1]
                     /\ \A field \in TFields, value \in TValues :
                           Executes(1, hsetCommand(db[1], key, field, value)) =>
                              /\ hashPairs(after) =
                                    {p \in hashPairs(before) : p[1] # field}
                                    \cup {<<field, value>>}
                              /\ hashTypeLength(after) =
                                    hashTypeLength(before)
                                    + (IF \E p \in hashPairs(before) : p[1] = field
                                       THEN 0 ELSE 1)]_vars

\* SADD a x has turned the intset {1, 2} at "a" into a hash table of three
\* members
C16_Witness ==
    /\ server.dirty = 1
    /\ reply = shared_cone
    /\ "a" \in DOMAIN db[1].dict
    /\ db[1].dict["a"].type = REDIS_SET
    /\ db[1].dict["a"].encoding = REDIS_ENCODING_HT
    /\ setMembers(db[1].dict["a"]) = {"1", "2", "x"}
    /\ setTypeSize(db[1].dict["a"]) = 3

\* every key of setkeys that is in d holds a set
AllSets(d, setkeys) ==
    \A j \in 1..Len(setkeys) :
        (setkeys[j] \in DOMAIN d.dict) => (d.dict[setkeys[j]].type = REDIS_SET)

\* the members of the set at key in d, none for a missing key
membersAt(d, key) ==
    IF key \in DOMAIN d.dict THEN setMembers(d.dict[key]) ELSE {}

\* the members of the first set that are in none of the others
diffExpected(d, setkeys) ==
    membersAt(d, setkeys[1])
    \ UNION {membersAt(d, setkeys[j]) : j \in 2..Len(setkeys)}

\* the command with destination dstkey has stored exactly the members exp
StoredExactly(s, dstkey, exp) ==
    /\ s.reply = replyLongLong(Cardinality(exp))
    /\ IF exp = {} THEN dstkey \notin DOMAIN s.d.dict
       ELSE /\ dstkey \in DOMAIN s.d.dict
            /\ s.d.dict[dstkey].type = REDIS_SET
            /\ setMembers(s.d.dict[dstkey]) = exp

\* the reply r lists exactly the members exp, each once
RepliesExactly(r, exp) ==
    /\ r.reply = replyMultiBulkLen(Cardinality(exp))
    /\ Range(r.mbulk) = exp
    /\ Len(r.mbulk) = Cardinality(exp)

\* C17: for every first set and other sets, missing keys counting as empty
\* and any key possibly repeated, SDIFF replies and SDIFFSTORE stores exactly
\* the members of the first set that are in none of the others, and both
\* algorithms compute that same result, whichever the cost estimate selects.
C17_Difference ==
    \A setkeys \in TDiffLists :
       LET dn == lookupSets(db[1], setkeys, 1, FALSE)
           exp == diffExpected(dn, setkeys)
       IN AllSets(dn, setkeys) =>
          /\ RepliesExactly(sunionDiffGenericCommand(db[1], setkeys, NULL,
                                                     REDIS_OP_DIFF), exp)
          /\ \A dstkey \in TDsts :
                StoredExactly(sunionDiffGenericCommand(db[1], setkeys, dstkey,
                                                       REDIS_OP_DIFF), dstkey, exp)
          /\ (setkeys[1] \in DOMAIN dn.dict) =>
                \A algo \in {1, 2} :
                   /\ setMembers(sdiffResult(dn, setkeys, algo).o) = exp
                   /\ sdiffResult(dn, setkeys, algo).n = Cardinality(exp)

\* SDIFF a b b b has replied the three members of a that are not in b, the
\* cost estimate having selected algorithm 2
C17_Witness ==
    /\ {"a", "b"} \subseteq DOMAIN db[1].dict
    /\ AllSets(db[1], <<"a", "b">>)
    /\ lookupSets(db[1], <<"a", "b">>, 1, FALSE) = db[1]
    /\ sdiffAlgo(db[1], <<"a", "b", "b", "b">>) = 2
    /\ reply = replyMultiBulkLen(3)
    /\ Range(mbulk) = diffExpected(db[1], <<"a", "b", "b", "b">>)
    /\ Len(mbulk) = 3

\* the members of all the sets at setkeys, none when a key is missing
interExpected(d, setkeys) ==
    {m \in membersAt(d, setkeys[1]) :
        \A j \in 2..Len(setkeys) : m \in membersAt(d, setkeys[j])}

\* SINTER over setkeys replies and SINTERSTORE stores exactly the members
\* of all the sets, whichever of the smallest sets qsort puts first
InterExact(setkeys) ==
    LET dn == lookupSets(db[1], setkeys, 1, FALSE)
        exp == interExpected(dn, setkeys)
    IN AllSets(dn, setkeys) =>
          \A first \in sinterFirsts(dn, setkeys) :
             /\ RepliesExactly(sinterGenericCommand(db[1], setkeys, NULL, first), exp)
             /\ \A dstkey \in TDsts :
                   StoredExactly(sinterGenericCommand(db[1], setkeys, dstkey, first),
                                 dstkey, exp)

\* the sets SINTERSTORE dstkey setkeys stores, for every destination and
\* every choice of qsort
InterStored(setkeys) ==
    LET dn == lookupSets(db[1], setkeys, 1, TRUE) IN
    IF ~AllSets(dn, setkeys) THEN {}
    ELSE {s.d.dict[s.dstkey] :
            s \in {s \in {[d |-> sinterGenericCommand(db[1], setkeys, dstkey, first).d,
                            dstkey |-> dstkey] :
                              first \in sinterFirsts(dn, setkeys), dstkey \in TDsts} :
                      s.dstkey \in DOMAIN s.d.dict}}

AllIntegers(S) == \A m \in S : isObjectRepresentableAsLongLong(m)

FewIntegers(S) ==
    AllIntegers(S) /\ Cardinality(S) <= server_set_max_intset_entries

\* C18 as stated: SINTER and SINTERSTORE yield exactly the members of every
\* input set, whatever the order of the keys and the encodings of the sets,
\* and the stored result is an intset whenever all its members are integers.
C18_IntersectionIntset ==
    \A setkeys \in TKeyLists :
        /\ InterExact(setkeys)
        /\ \A o \in InterStored(setkeys) :
              AllIntegers(setMembers(o)) => (o.encoding = REDIS_ENCODING_INTSET)

\* C18 amended: SINTER and SINTERSTORE yield exactly the members of every
\* input set, whatever the order of the keys and the encodings of the sets,
\* and the stored result is an intset whenever all its members are integers
\* and they are at most set-max-intset-entries.
C18_IntersectionSmallIntset ==
    \A setkeys \in TKeyLists :
        /\ InterExact(setkeys)
        /\ \A o \in InterStored(setkeys) :
              FewIntegers(setMembers(o)) => (o.encoding = REDIS_ENCODING_INTSET)

\* SINTERSTORE b a b has stored the one common member of the hash table set
\* {x, 1} and the intset {1, 2}, as an intset
C18_Witness ==
    /\ server.dirty = 1
    /\ reply = replyLongLong(1)
    /\ {"a", "b"} \subseteq DOMAIN db[1].dict
    /\ db[1].dict["a"].type = REDIS_SET
    /\ db[1].dict["a"].encoding = REDIS_ENCODING_HT
    /\ setMembers(db[1].dict["a"]) = {"x", "1"}
    /\ db[1].dict["b"].type = REDIS_SET
    /\ db[1].dict["b"].encoding = REDIS_ENCODING_INTSET
    /\ setMembers(db[1].dict["b"]) = {"1"}

\* the reply SRANDMEMBER key arg owes for the count l on the set o: the set
\* is left as it is, and the elements replied are none for 0, l distinct
\* members for 0 < l < |S|, each member once for l >= |S|, and -l members
\* for l < 0
RandomReplyOwed(r, lk, o, l) ==
    LET S == setMembers(o)
        size == Cardinality(S)
        n == Len(r.mbulk)
        NoRepeat == \A i, j \in 1..n : r.mbulk[i] = r.mbulk[j] => i = j
        FromSet == \A i \in 1..n : r.mbulk[i] \in S
    IN /\ r.d = lk.d
       /\ r.dirty = 0
       /\ IF l.hi = 0 /\ l.lo = 0
          THEN r.reply = shared_emptymultibulk /\ n = 0
          ELSE IF ~longIsNatural(l)
          THEN r.reply = replyMultiBulkLen(-l.lo) /\ n = -l.lo /\ FromSet
          ELSE IF l.hi = 0 /\ l.lo < size
          THEN r.reply = replyMultiBulkLen(l.lo) /\ n = l.lo /\ FromSet /\ NoRepeat
          ELSE r.reply = replyMultiBulkLen(size) /\ n = size /\ FromSet /\ NoRepeat

\* SRANDMEMBER key arg answers as owed for every count in counts and every
\* outcome of the random source
RandomRepliesOwed(counts) ==
    LET lk == lookupKeyRead(db[1], TKey) IN
    (lk.found /\ lk.d.dict[TKey].type = REDIS_SET) =>
        \A arg \in counts :
            \A picks \in srandmemberPicks(db[1], TKey, arg) :
                RandomReplyOwed(srandmemberWithCountCommand(db[1], TKey, arg, picks),
                                lk, lk.d.dict[TKey], getLongFromObject(arg))

\* C19: SRANDMEMBER key n leaves the set as it is and replies, for every
\* count n that is a long: nothing for n = 0, n pairwise distinct members
\* for 0 < n < |S|, every member once for n >= |S|, and |n| members,
\* repetitions allowed, for n < 0
C19_RandomMembers == RandomRepliesOwed(TCounts)


\* s is the decimal text of a value of 32 bits: an optional minus sign and
\* digits without a leading zero, not "-0", of magnitude at most 2^31 - 1,
\* or 2^31 below zero
DecimalOfInt32(s) ==
    LET neg == Len(s) >= 1 /\ s[1] = "-"
        ds == IF neg THEN SubSeq(s, 2, Len(s)) ELSE s
        most == IF neg THEN <<2, 1, 4, 7, 4, 8, 3, 6, 4, 8>>
                ELSE <<2, 1, 4, 7, 4, 8, 3, 6, 4, 7>>
    IN /\ Len(ds) >= 1
       /\ Len(ds) <= 10
       /\ \A i \in 1..Len(ds) : ds[i] \in Digits
       /\ ds[1] = "0" => (Len(ds) = 1 /\ ~neg)
       /\ Len(ds) = 10 =>
             \/ \A i \in 1..10 : DigitValue(ds[i]) = most[i]
             \/ \E i \in 1..10 :
                   /\ DigitValue(ds[i]) < most[i]
                   /\ \A j \in 1..(i - 1) : DigitValue(ds[j]) = most[j]

\* the form of what was written: the first header byte tells
StringForm(w) ==
    IF w.hdr[1] \div 64 # REDIS_RDB_ENCVAL THEN "raw"
    ELSE IF w.hdr[1] % 64 = REDIS_RDB_ENC_LZF THEN "lzf" ELSE "int"

\* C21: the reader gives back every byte string as the writer was given it,
\* whichever form was written; the integer form is written exactly for the
\* decimal texts of values of 32 bits (of at most 11 bytes), the compressed
\* form only with compression enabled, for more than 20 bytes and at least
\* 4 bytes smaller, and the raw form otherwise, as the length and the bytes
\* with nothing written before them
C21_StringRoundTrip ==
    /\ codec.pc = "loaded" => codec.val = codec.s
    /\ codec.pc \in {"saved", "loaded"} =>
          LET form == StringForm(codec.w) IN
          /\ (form = "int") = (Len(codec.s) <= 11 /\ DecimalOfInt32(codec.s))
          /\ form = "lzf" =>
                /\ codec.rdb_compression
                /\ Len(codec.s) > 20
                /\ Len(codec.w.data) <= Len(codec.s) - 4
          /\ (form # "int" /\ codec.rdb_compression /\ Len(codec.s) > 20
                /\ Len(lzf_compress(codec.s, Len(codec.s) - 4)) > 0) => form = "lzf"
          /\ form = "raw" =>
                /\ codec.w.hdr = rdbSaveLen(uint32(Len(codec.s)))
                /\ codec.w.data = codec.s

\* a text with a leading space, which strtoll converts, was written raw and
\* read back
C21_Witness ==
    /\ codec.pc = "loaded"
    /\ codec.s = <<" ", "1">>
    /\ StringForm(codec.w) = "raw"
    /\ codec.val = <<" ", "1">>

RECURSIVE accountedSum(_, _)
accountedSum(z, ptrs) ==
    IF ptrs = {} THEN 0
    ELSE LET p == CHOOSE p \in ptrs : TRUE
         IN zmallocRound(zmallocStat(z, z.heap[p])) + accountedSum(z, ptrs \ {p})

\* used_memory is the sum over the blocks in use, and 0 with none in use
CounterIsSum == codec.used_memory = accountedSum(codec, DOMAIN codec.heap)

\* C23 as stated: the counter is the sum over the blocks in use of their
\* rounded sizes as accounted at allocation, and every zfree and the release
\* half of every zrealloc takes off exactly what the allocation of the
\* block added
C23_CounterExact ==
    [][/\ CounterIsSum'
       /\ (codec'.op = "zfree" /\ codec' # codec) =>
             \E ptr \in (DOMAIN codec.heap) \ DOMAIN codec'.heap :
                codec'.sub = zmallocRound(zmallocStat(codec, codec.heap[ptr]))
       /\ (codec'.op = "zrealloc" /\ Cardinality(DOMAIN codec'.heap)
                                      = Cardinality(DOMAIN codec.heap)
              /\ codec' # codec) =>
             \E ptr \in DOMAIN codec.heap :
                /\ \A q \in (DOMAIN codec.heap) \ {ptr} : codec'.heap[q] = codec.heap[q]
                /\ codec'.sub = zmallocRound(zmallocStat(codec, codec.heap[ptr]))]_vars

\* C23 amended: the counter is the sum over the blocks in use of their
\* rounded sizes as accounted, every zfree takes off exactly what the block
\* was accounted for, and a zrealloc changes the counter by the difference
\* of what the new and the old block are accounted for
C23_CounterIsSum ==
    [][/\ CounterIsSum'
       /\ (codec'.op = "zfree" /\ codec' # codec) =>
             \E ptr \in (DOMAIN codec.heap) \ DOMAIN codec'.heap :
                codec'.sub = zmallocRound(zmallocStat(codec, codec.heap[ptr]))
       /\ (codec'.op = "zrealloc" /\ Cardinality(DOMAIN codec'.heap)
                                      = Cardinality(DOMAIN codec.heap)
              /\ codec' # codec) =>
             \E ptr \in DOMAIN codec.heap :
                /\ \A q \in (DOMAIN codec.heap) \ {ptr} : codec'.heap[q] = codec.heap[q]
                /\ codec'.used_memory - codec.used_memory
                      = zmallocRound(zmallocStat(codec', codec'.heap[ptr]))
                        - zmallocRound(zmallocStat(codec, codec.heap[ptr]))]_vars

\* without malloc_size, zrealloc has made a block of 9 bytes, accounted as
\* 24, a block of 1 byte, accounted as 16, taking 16 off and adding 8
C23_Witness ==
    /\ ~codec.have_malloc_size
    /\ codec.op = "zrealloc"
    /\ codec.sub = 16
    /\ codec.add = 8
    /\ codec.heap = <<[size |-> 1, usable |-> 1]>>
    /\ codec.used_memory = 16


\* C24 as stated: no update of the counter by concurrent threads is lost,
\* and zmalloc_used_memory returns the sum of the updates made
C24_CounterAtomic ==
    /\ codec.used_memory = codec.done
    /\ codec.op = "read" => codec.um = codec.done

\* C24 amended: when every update was begun after
\* zmalloc_enable_thread_safeness, no update of the counter by concurrent
\* threads is lost, and zmalloc_used_memory returns the sum of the updates
\* made
C24_CounterAtomicWhenEnabled ==
    ~codec.racy =>
        /\ codec.used_memory = codec.done
        /\ codec.op = "read" => codec.um = codec.done

\* with the mutex, one thread has made its update and holds the mutex while
\* the other waits for it, and no update was begun before thread safeness
C24_Witness ==
    /\ ~codec.racy
    /\ ~codec.have_atomic
    /\ codec.th[1].pc = "unlock"
    /\ codec.th[2].pc = "lock"
    /\ codec.used_memory = 8 + codec.th[1].n

\* the position an index names in a string of len bytes: a negative index
\* counts from the end and stops at the first byte
SdsPosition(len, i) == IF i >= 0 THEN i ELSE IF len + i < 0 THEN 0 ELSE len + i

\* the bytes of s at the positions start..end, end stopping at the last
\* byte; none when start is past end or past the last byte
SdsKept(s, start, end) ==
    LET from == SdsPosition(s.len, start)
        upto == IF SdsPosition(s.len, end) >= s.len THEN s.len - 1
                ELSE SdsPosition(s.len, end)
    IN IF from > upto \/ from >= s.len THEN <<>>
       ELSE [i \in 1..(upto - from + 1) |-> s.buf[from + i]]

\* C25: sdsrange(s, start, end) keeps exactly the bytes at the positions
\* start..end, a negative index counting from the end and stopping at the
\* first byte and end stopping at the last byte; nothing is kept when start
\* is past end or at or past the length; length plus free space is unchanged
C25_Range ==
    codec.pc = "ranged" =>
        /\ codec.y.buf = SdsKept(codec.s, codec.start, codec.end)
        /\ codec.y.len = Len(codec.y.buf)
        /\ codec.y.len + codec.y.free = codec.s.len + codec.s.free
        /\ (codec.s.buf = <<"c", "i", "a", "o">> /\ codec.start = -1 /\ codec.end = -1)
              => codec.y.buf = <<"o">>
        /\ (codec.start = 2 /\ codec.end = 1) => codec.y.buf = <<>>
        /\ (codec.s.buf = <<"c", "i", "a", "o">> /\ codec.start = 100 /\ codec.end = 100)
              => codec.y.buf = <<>>

\* sdsrange("ciao", -2, 100) has kept "ao"
C25_Witness ==
    /\ codec.pc = "ranged"
    /\ codec.s.buf = <<"c", "i", "a", "o">>
    /\ codec.start = -2
    /\ codec.end = 100
    /\ codec.y.buf = <<"a", "o">>
    /\ codec.y.free = codec.s.free + 2

\* what HINCRBY key field incr owes in the dataset d: an error that leaves
\* the dataset and the dirty counter as they are when the value of the
\* field is no integer or the sum leaves the range of a long long, and
\* else the sum, stored in the field and replied, an absent field counting
\* as 0
IncrOwed(d, key, field, incr) ==
    LET r == hincrbyCommand(d, key, field, incr)
        lk == lookupKeyWrite(d, key)
        current == IF lk.found THEN hashTypeGetObject(lk.d.dict[key], field)
                   ELSE NULL
        sum == (IF current = NULL THEN 0 ELSE string2ll(current)) + string2ll(incr)
    IN (lk.found => lk.d.dict[key].type = REDIS_HASH) =>
          IF current # NULL /\ ~isObjectRepresentableAsLongLong(current)
          THEN r.d = d /\ r.dirty = 0 /\ r.reply = replyNotAnInteger
          ELSE IF sum < LLONG_MIN \/ sum > LLONG_MAX
          THEN r.d = d /\ r.dirty = 0 /\ r.reply = replyOverflow
          ELSE /\ r.reply = replyLongLong(sum)
               /\ r.dirty = 1
               /\ key \in DOMAIN r.d.dict
               /\ r.d.dict[key].type = REDIS_HASH
               /\ hashTypeGetObject(r.d.dict[key], field) = ll2string(sum)
               /\ \A g \in IncrFields \ {field} :
                     hashTypeGetObject(r.d.dict[key], g)
                        = (IF lk.found THEN hashTypeGetObject(lk.d.dict[key], g)
                           ELSE NULL)

\* C26: HINCRBY replies an error and leaves the hash, the keyspace and the
\* dirty counter as they are whenever the value of the field is no integer
\* or the sum leaves the range of a signed 64-bit integer; otherwise it
\* stores and replies the sum, an absent field counting as 0
C26_IncrExact ==
    \A field \in IncrFields, incr \in IncrArgs : IncrOwed(db[1], TKey, field, incr)

\* HINCRBY has refused to take the field past the largest value
C26_Witness ==
    /\ reply = replyOverflow
    /\ TKey \in DOMAIN db[1].dict
    /\ db[1].dict[TKey].type = REDIS_HASH
    /\ hashTypeGetObject(db[1].dict[TKey], "f") = ll2string(LLONG_MAX)
    /\ server.dirty = 1

\* key holds a value, not yet expired, of another type than type
HoldsOther(key, type) ==
    LET lk == lookupKeyRead(db[1], key)
    IN lk.found /\ lk.d.dict[key].type # type

\* the dataset e is the dataset d but for keys of d that have expired
SameLiveKeys(d, e) ==
    /\ DOMAIN e.dict \subseteq DOMAIN d.dict
    /\ \A k \in DOMAIN d.dict :
          (getExpire(d, k) = -1 \/ now <= getExpire(d, k)) =>
              /\ k \in DOMAIN e.dict
              /\ e.dict[k] = d.dict[k]
              /\ getExpire(e, k) = getExpire(d, k)

\* the command replied a type error and changed neither the keyspace, the
\* values and the expirations nor the dirty counter
TypeErrorOnly(r) ==
    /\ r.reply = shared_wrongtypeerr
    /\ SameLiveKeys(db[1], r.d)
    /\ r.dirty = 0

\* the key lists given to SINTER, SUNION, SDIFF and their STORE forms
TTypeLists == TDiffLists \cup {<<TNoKey, "a">>, <<"b", TNoKey, "a">>}

\* the set commands of one key on a key that holds no set
TypeErrorSetKey ==
    \A key \in TKeys : HoldsOther(key, REDIS_SET) =>
        /\ \A argv \in TAdds : TypeErrorOnly(saddCommand(db[1], key, argv))
        /\ \A argv \in TRems : TypeErrorOnly(sremCommand(db[1], key, argv))
        /\ \A ele \in TMoves : TypeErrorOnly(sismemberCommand(db[1], key, ele))
        /\ TypeErrorOnly(spopCommand(db[1], key, NULL))
        /\ \A arg \in TCounts :
              TypeErrorOnly(srandmemberWithCountCommand(db[1], key, arg, <<>>))

\* the hash commands on a key that holds no hash
TypeErrorHashKey ==
    \A key \in TKeys : HoldsOther(key, REDIS_HASH) =>
        /\ \A field \in TFields, value \in TValues :
              /\ TypeErrorOnly(hsetCommand(db[1], key, field, value))
              /\ TypeErrorOnly(hsetnxCommand(db[1], key, field, value))
        /\ \A argv \in THmsets : TypeErrorOnly(hmsetCommand(db[1], key, argv))
        /\ \A field \in TIncrFields, incr \in TIncrs :
              /\ TypeErrorOnly(hincrbyCommand(db[1], key, field, incr))
              /\ TypeErrorOnly(hincrbyfloatCommand(db[1], key, field, incr))
        /\ \A argv \in THdels : TypeErrorOnly(hdelCommand(db[1], key, argv))

\* SUNION, SDIFF and their STORE forms with an input that holds no set
TypeErrorUnionDiff ==
    \A setkeys \in TTypeLists :
        (\E j \in 1..Len(setkeys) : HoldsOther(setkeys[j], REDIS_SET)) =>
            \A op \in {REDIS_OP_UNION, REDIS_OP_DIFF}, dstkey \in TDsts \cup {NULL} :
                TypeErrorOnly(sunionDiffGenericCommand(db[1], setkeys, dstkey, op))

\* SINTER and SINTERSTORE with an input that holds no set
TypeErrorInter ==
    \A setkeys \in TTypeLists :
        (\E j \in 1..Len(setkeys) : HoldsOther(setkeys[j], REDIS_SET)) =>
            \A dstkey \in TDsts \cup {NULL} :
                TypeErrorOnly(sinterGenericCommand(db[1], setkeys, dstkey, 1))

\* SMOVE with a source or a destination that holds no set
TypeErrorMove ==
    \A src \in TKeys \cup {TNoKey}, dst \in TKeys \cup {TNoKey} :
        (HoldsOther(src, REDIS_SET) \/ HoldsOther(dst, REDIS_SET)) =>
            \A ele \in TMoves : TypeErrorOnly(smoveCommand(db[1], src, dst, ele))

\* C27: a set or hash command applied to a key that holds a value of another
\* type, as its key, its source, its destination operand or one of several
\* inputs, replies a type error and leaves the keyspace, every value, the
\* expirations and the dirty counter as they were
C27_TypeErrorChangesNothing ==
    /\ TypeErrorSetKey
    /\ TypeErrorHashKey
    /\ TypeErrorUnionDiff
    /\ TypeErrorInter
    /\ TypeErrorMove

-----------------------------------------------------------------------------
(* The end of a background save *)

\* a background save is in progress
BgsaveInProgress == server.rdb_child_pid # -1

\* the step reaps a terminated child
ReapsChild ==
    /\ saver[ChildPid].pc \in {"exited", "killed"}
    /\ saver'[ChildPid].pc = "idle"

\* the step is a SAVE or a BGSAVE refused because of a background save
RefusesSave ==
    /\ saveCommand \/ bgsaveCommand
    /\ reply' = replyBgsaveInProgress

\* the step is a SAVE the server accepts: rdbSave() starts
AcceptsSave ==
    /\ saveCommand
    /\ saver'[ParentPid].pc = "open"

\* the step starts a background save
StartsBgsave ==
    /\ ~BgsaveInProgress
    /\ server'.rdb_child_pid # -1

\* C28: every background save that starts comes back to the idle state:
\* rdb_child_pid leads to -1; the handler that reaps the child, whatever its
\* exit code or signal, leaves rdb_child_pid at -1; with rdb_child_pid at -1
\* a SAVE is accepted and neither SAVE nor BGSAVE is refused for a save in
\* progress; a failed fork leaves rdb_child_pid at -1, and the step that
\* sets it is a BGSAVE that started a child.
C28_BgsaveComesBackIdle ==
    /\ BgsaveInProgress ~> ~BgsaveInProgress
    /\ [][/\ ReapsChild => server'.rdb_child_pid = -1
          /\ RefusesSave => BgsaveInProgress
          /\ (saveCommand /\ ~BgsaveInProgress) => AcceptsSave
          /\ ForkFails => server'.rdb_child_pid = -1
          /\ StartsBgsave => /\ bgsaveCommand
                             /\ reply' = replyBgsaveStarted
                             /\ saver'[ChildPid].pc = "open"]_vars

\* a child ended by a signal has been reaped: no save is in progress
C28_Witness ==
    /\ log = logBgsaveSignal
    /\ reply = replyBgsaveStarted
    /\ ~BgsaveInProgress
    /\ saver[ChildPid].pc = "idle"

-----------------------------------------------------------------------------
(* No empty set and no empty hash *)

\* the object o holds at least one element
HoldsElement(o) ==
    /\ o.type = REDIS_SET => setTypeSize(o) > 0
    /\ o.type = REDIS_HASH => hashTypeLength(o) > 0

\* C29: after any set or hash command no key maps to an empty set or an
\* empty hash: in every database every key's value holds at least one
\* element, whether the command removed elements, stored a result or
\* created the key.
C29_NoEmptyKey ==
    \A j \in DbIds : \A k \in DOMAIN db[j].dict : HoldsElement(db[j].dict[k])

\* a command that replied 1 removed the last element of the only key: the
\* database is empty
C29_Witness ==
    /\ db[1] = emptyDb
    /\ reply = replyLongLong(1)
    /\ server.dirty = 1

-----------------------------------------------------------------------------
(* SMOVE *)

\* the members of the set at key, none when key is absent or has expired
liveMembers(key) ==
    LET lk == lookupKeyRead(db[1], key)
    IN IF lk.found THEN setMembers(lk.d.dict[key]) ELSE {}

\* what SMOVE src dst ele owes: 1 and the member moved when ele was a
\* member of src; 0, both sets as they were, no destination created and the
\* dirty counter as it was when it was not
MoveOwed(src, dst, ele) ==
    LET r == smoveCommand(db[1], src, dst, ele) IN
    IF ele \in liveMembers(src)
    THEN /\ r.reply = shared_cone
         /\ membersAt(r.d, dst) = liveMembers(dst) \cup {ele}
         /\ src # dst => membersAt(r.d, src) = liveMembers(src) \ {ele}
    ELSE /\ r.reply = shared_czero
         /\ membersAt(r.d, src) = liveMembers(src)
         /\ membersAt(r.d, dst) = liveMembers(dst)
         /\ ~lookupKeyRead(db[1], dst).found => dst \notin DOMAIN r.d.dict
         /\ r.dirty = 0

\* SMOVE between keys that hold sets or nothing gives what it owes
MovesOwed(pairs) ==
    \A p \in pairs :
        (~HoldsOther(p[1], REDIS_SET) /\ ~HoldsOther(p[2], REDIS_SET)) =>
            \A ele \in TMoves : MoveOwed(p[1], p[2], ele)

TMoveKeys == TKeys \cup {TNoKey}

\* SMOVE between two different keys gives what it owes
MovesOwedApart == MovesOwed({p \in TMoveKeys \X TMoveKeys : p[1] # p[2]})

====
